---- MODULE Spec2Model ----
(***************************************************************************)
(* ASFclaim (src/index.js, first implementation, lines 1-696).             *)
(*                                                                         *)
(* The program is one Node.js process.  Its code runs to completion        *)
(* between suspension points (an awaited fetch, an awaited timer, an       *)
(* awaited webhook promise), so one action of this model is one event of   *)
(* the event loop: the event resumes one async call chain, which runs      *)
(* until it suspends again, returns, or ends the process.                  *)
(*                                                                         *)
(* A call chain is a stack of frames, one per async function of the source *)
(* that is active.  Thread 0 is the module's top-level code (start-up and   *)
(* the initial checkGame); thread k >= 1 is the k-th setInterval tick.      *)
(***************************************************************************)
EXTENDS Integers, Sequences, FiniteSets, TLC

VARIABLES
    config,               \* the config object (lines 36-49), fixed at start
    docs,                 \* the contents the Gist's "Steam Codes" file may have
    disk,                 \* ./storage: processedLicenses file, lastlength file
    processedLicenses,    \* let processedLicenses (line 133)
    th,                   \* th[t]: the stack of frames of call chain t
    webhookQueue,         \* const webhookQueue (line 73)
    isProcessingWebhook,  \* let isProcessingWebhook (line 74)
    dsp,                  \* the running calls of processWebhookQueue's loop
    timer,                \* TRUE once setInterval (line 190) has run
    ticks,                \* how many timer ticks have fired
    exitCode,             \* NotExited, or the process's exit code
    inp,                  \* the last event: what arrived, and for which chain
    out,                  \* what the last event did (observable effects)
    hist                  \* history: how far the gate got ("", then "reachable"
                          \* once checkConnection saw a success, then "ready"
                          \* once checkUserLoggedIn saw isDone); where on, the
                          \* <<code, chain>> claimed and rate-limited

vars == <<config, docs, disk, processedLicenses, th, webhookQueue,
          isProcessingWebhook, dsp, timer, ticks, exitCode, inp, out, hist>>

-----------------------------------------------------------------------------
(* Bounds of the model *)

\* timer ticks that fire within one behaviour
MaxTicks == 1
\* timer ticks that fire within one behaviour of the program without a sink
MaxQuietTicks == 2
\* timer ticks that fire within one behaviour of the program on an empty list
MaxHookTicks == 2
\* apps listed by a package of the Steam store (packagedetails)
MaxApps == 1

-----------------------------------------------------------------------------
(* Constants of the program *)

\* newCodes.slice(0, 40)
BatchSize == 40
\* maxRetries of checkConnection
maxRetries == 5

NotExited == -1

-----------------------------------------------------------------------------
(* Sequences *)

Range(s) == { s[i] : i \in 1 .. Len(s) }

Min(a, b) == IF a < b THEN a ELSE b

Max(a, b) == IF a < b THEN b ELSE a

\* the call chains: the top-level code and one per tick
Threads == 0 .. Max(Max(MaxTicks, MaxQuietTicks), MaxHookTicks)

\* the calls of processWebhookQueue that can be in their loop at a time: a
\* chain awaits the job it enqueued, so there are no more jobs than chains
Loops == 1 .. Cardinality(Threads)

\* Array.prototype.includes
Includes(s, x) == \E i \in 1 .. Len(s) : s[i] = x

\* Array.prototype.filter with a predicate given as a set of kept values
FilterOut(s, drop) == SelectSeq(s, LAMBDA x : ~Includes(drop, x))

\* Array.prototype.reverse
Reverse(s) == [ i \in 1 .. Len(s) |-> s[Len(s) + 1 - i] ]

\* a slice that takes the whole array
SliceAll(s, end) == s

\* Array.prototype.slice(0, end): a negative end counts from the end
Slice0(s, end) ==
    LET e == IF end < 0 THEN Max(Len(s) + end, 0) ELSE Min(end, Len(s))
    IN  SubSeq(s, 1, e)

\* [...new Set(s)]: the first occurrence of each element, in order
RECURSIVE Dedup(_)
Dedup(s) ==
    IF s = <<>> THEN <<>>
    ELSE LET r == Dedup(SubSeq(s, 1, Len(s) - 1))
             x == s[Len(s)]
         IN  IF Includes(r, x) THEN r ELSE Append(r, x)

-----------------------------------------------------------------------------
(* The Gist document: raw lines, as split("\n") yields them *)

\* String.prototype.trim on the raw lines the model uses
Trim(line) ==
    CASE line = " a/1 " -> "a/1"
      [] line = "  "    -> ""
      [] OTHER          -> line

\* .split("\n").map(code => code.trim()).filter(code => code)
ParseCodes(raw) ==
    SelectSeq([ i \in 1 .. Len(raw) |-> Trim(raw[i]) ], LAMBDA c : c # "")

\* a list longer than one batch: "a/1", "s/2" and then 39 lines "3"
LongGist == [ i \in 1 .. BatchSize + 1 |->
                IF i = 1 THEN "a/1" ELSE IF i = 2 THEN "s/2" ELSE "3" ]

\* the documents the Gist holds in the behaviours checked
GistDocs ==
    { <<>>,
      <<"a/1">>,
      <<"a/1", "s/2">>,
      <<"a/1", "", " a/1 ">> }

-----------------------------------------------------------------------------
(* Responses of the agent (ASF): body.Result is text, a sequence of lines.  *)
(* A line that the parser's regular expression matches is given by what the *)
(* expression captures from it; a status is its sequence of tokens.         *)

NoLine == [ m |-> FALSE, user |-> "", id |-> "", status |-> <<>> ]

Line(user, id, status) ==
    [ m |-> TRUE, user |-> user, id |-> id, status |-> status ]

\* String.prototype.includes / match on a status: one of its tokens is tok
HasToken(status, tok) == \E i \in 1 .. Len(status) : status[i] = tok

StOK == <<"OK">>
StOKDetail == <<"OK", "/", "NoDetail">>
StRateLimit == <<"Fail", "/", "RateLimitExceeded">>
StPlaceholder == <<"OK", "->", "Not available for this account">>
StConnecting == <<"Bot is connecting to Steam network">>
StIdle == <<"Bot is not being used">>

\* an empty object {}
EmptyObj == [ u \in {} |-> NoLine ]

\* a parser that keeps the status "OK" as it is
RECURSIVE parseASFResultKeepOK(_)
parseASFResultKeepOK(result) ==
    IF result = <<>> THEN EmptyObj
    ELSE LET l    == result[Len(result)]
             rest == parseASFResultKeepOK(SubSeq(result, 1, Len(result) - 1))
         IN  IF l.m
             THEN (l.user :> [ id |-> l.id, status |-> l.status ]) @@ rest
             ELSE rest

(* parseASFResult, lines 648-661: one entry per matched line, keyed by     *)
(* the account name, a later line of the same account replacing the entry;  *)
(* the status "OK" is rewritten.                                            *)
RECURSIVE parseASFResult(_)
parseASFResult(result) ==
    IF result = <<>> THEN EmptyObj
    ELSE LET l    == result[Len(result)]
             rest == parseASFResult(SubSeq(result, 1, Len(result) - 1))
         IN  IF l.m
             THEN (l.user :> [ id |-> l.id,
                               status |-> IF l.status # StOK THEN l.status
                                          ELSE StPlaceholder ]) @@ rest
             ELSE rest

\* Object.values(asfResult).some(r => r.status.includes('RateLimitExceeded'))
hasRateLimit(asfResult) ==
    \E u \in DOMAIN asfResult : HasToken(asfResult[u].status, "RateLimitExceeded")

(* parseASFStatus, lines 670-696 *)
RECURSIVE parseASFStatus(_)
parseASFStatus(result) ==
    IF result = <<>> THEN [ user |-> EmptyObj, isDone |-> TRUE ]
    ELSE LET l    == result[Len(result)]
             rest == parseASFStatus(SubSeq(result, 1, Len(result) - 1))
             conn == HasToken(l.status, "Bot is connecting to Steam network")
         IN  IF l.m
             THEN [ user   |-> (l.user :> [ status |-> l.status, isDone |-> ~conn ])
                               @@ rest.user,
                    isDone |-> rest.isDone /\ ~conn ]
             ELSE rest

\* the texts the agent answers an addlicense command with
ClaimTexts ==
    { << Line("bot1", "", StOK) >>,
      << Line("bot1", "", StOKDetail), Line("bot2", "", StRateLimit) >> }

\* the bodies of the answers to an addlicense command; null: Result is null
ClaimBodies ==
    [ Success : {TRUE}, null : {FALSE}, Result : ClaimTexts ]
    \cup [ Success : {FALSE}, null : BOOLEAN, Result : {<<>>} ]
    \cup [ Success : {TRUE}, null : {TRUE}, Result : {<<>>} ]

NoBody == [ Success |-> FALSE, null |-> TRUE, Result |-> <<>> ]

\* the texts the agent answers a status command with
StatusTexts ==
    { << Line("bot1", "", StIdle) >>,
      << Line("bot1", "", StConnecting) >>,
      << Line("bot1", "", StConnecting), Line("bot1", "", StIdle) >>,
      << NoLine >> }

\* the bodies of the answers to a status command; Result <<>> is ""
StatusBodies ==
    [ Success : {TRUE}, null : {FALSE}, Result : StatusTexts \cup {<<>>} ]
    \cup [ Success : {FALSE}, null : {FALSE}, Result : {<<>>} ]

-----------------------------------------------------------------------------
(* Frames and the machine.  A machine state m holds the program's          *)
(* variables while one event is handled, with the call chain that runs      *)
(* (cur), what it is doing (sig: run, ret, throw, susp) and the value       *)
(* passed (rv).                                                             *)

NoRes == [ has |-> FALSE, v |-> EmptyObj ]

F0 == [ fn |-> "", pc |-> "", type |-> "", lic |-> "", res |-> NoRes,
        ti |-> 0, metas |-> <<>>, mi |-> 0, n |-> 0,
        batch |-> <<>>, i |-> 0, sent |-> 0, body |-> NoBody, err |-> "" ]

Frame(fn) == [ F0 EXCEPT !.fn = fn, !.pc = "begin" ]

Ev(ev, t, type, code) == [ ev |-> ev, t |-> t, type |-> type, code |-> code ]

Stack(m) == m.th[m.cur]

Top(m) == Stack(m)[Len(Stack(m))]

SetTop(m, f) == [ m EXCEPT !.th[m.cur] = [ @ EXCEPT ![Len(@)] = f ] ]

Goto(m, pc) == SetTop(m, [ Top(m) EXCEPT !.pc = pc ])

\* an await of something outside: the chain stops at pc until the event
Suspend(m, pc) == [ Goto(m, pc) EXCEPT !.sig = "susp" ]

\* a call: the caller continues at retpc when the callee returns
Call(m, retpc, f) ==
    [ Goto(m, retpc) EXCEPT !.th[m.cur] = Append(@, f), !.sig = "run" ]

Return(m, v) ==
    [ m EXCEPT !.th[m.cur] = SubSeq(@, 1, Len(@) - 1), !.sig = "ret", !.rv = v ]

Raise(m, e) == [ m EXCEPT !.sig = "throw", !.rv = e ]

Log(m, e) == [ m EXCEPT !.out = Append(@, e) ]

\* process.exit(code)
Exit(m, code) ==
    [ Log(m, Ev("exit", m.cur, "", "")) EXCEPT !.exitCode = code, !.sig = "susp" ]

Undefined == [ tag |-> "undefined" ]

-----------------------------------------------------------------------------
(* Notifications: sendWebhook and the dispatcher's synchronous part *)

\* no call of processWebhookQueue is past its first line
Idle == <<>>

NoJob == [ owner |-> 0, type |-> "", lic |-> "", meta |-> "" ]

\* s without its k-th element
Remove(s, k) == SubSeq(s, 1, k - 1) \o SubSeq(s, k + 1, Len(s))

\* a loop that takes the newest job
ShiftNewest(m, k) ==
    LET job == m.webhookQueue[Len(m.webhookQueue)]
    IN  Log([ m EXCEPT !.dsp[k] = [ pc |-> "fetch", job |-> job ],
                       !.webhookQueue = SubSeq(@, 1, Len(@) - 1) ],
            Ev("deliver", job.owner, job.type, job.lic))

\* lines 85-87: webhookQueue.shift(), then the call of fetch, awaited
Shift(m, k) ==
    LET job == Head(m.webhookQueue)
    IN  Log([ m EXCEPT !.dsp[k] = [ pc |-> "fetch", job |-> job ],
                       !.webhookQueue = Tail(@) ],
            Ev("deliver", job.owner, job.type, job.lic))

\* a loop that ends the process when it finds the queue empty
LoopTopExits(m, k) ==
    IF Len(m.webhookQueue) > 0 THEN Shift(m, k)
    ELSE Exit([ m EXCEPT !.isProcessingWebhook = FALSE, !.dsp = Remove(@, k) ], 1)

\* a loop that ends after its sleep, whatever the queue holds
LoopTopOnce(m, k) ==
    IF Len(m.webhookQueue) > 0 /\ m.dsp[k].pc = "top" THEN Shift(m, k)
    ELSE [ m EXCEPT !.isProcessingWebhook = FALSE, !.dsp = Remove(@, k) ]

\* lines 84 and 99: the loop's test; the flag is cleared when the queue is empty
LoopTop(m, k) ==
    IF Len(m.webhookQueue) > 0 THEN Shift(m, k)
    ELSE [ m EXCEPT !.isProcessingWebhook = FALSE, !.dsp = Remove(@, k) ]

\* a fetch that has settled, after which the loop does not wait
SettledNoWait(m, k, ok) ==
    LoopTop(Log(m, Ev("settle", m.dsp[k].job.owner,
                      IF ok THEN "resolve" ELSE "reject", m.dsp[k].job.lic)), k)

\* a loop that puts a job whose fetch failed back into the queue
SettledOrRetried(m, k, ok) ==
    Log([ m EXCEPT !.dsp[k].pc = "sleep",
                   !.webhookQueue = IF ok THEN @ ELSE Append(@, m.dsp[k].job) ],
        Ev("settle", m.dsp[k].job.owner,
           IF ok THEN "resolve" ELSE "reject", m.dsp[k].job.lic))

\* a loop that a failed fetch ends, the flag left set
SettledOrStuck(m, k, ok) ==
    IF ok
    THEN Log([ m EXCEPT !.dsp[k].pc = "sleep" ],
             Ev("settle", m.dsp[k].job.owner, "resolve", m.dsp[k].job.lic))
    ELSE Log([ m EXCEPT !.dsp = Remove(@, k) ],
             Ev("settle", m.dsp[k].job.owner, "reject", m.dsp[k].job.lic))

\* a loop that clears the flag before its sleep
SettledFlagCleared(m, k, ok) ==
    Log([ m EXCEPT !.dsp[k].pc = "sleep", !.isProcessingWebhook = FALSE ],
        Ev("settle", m.dsp[k].job.owner,
           IF ok THEN "resolve" ELSE "reject", m.dsp[k].job.lic))

\* lines 88-97: the fetch has settled; resolve() or reject(error), then the
\* call of sleep(0.2), awaited
Settled(m, k, ok) ==
    Log([ m EXCEPT !.dsp[k].pc = "sleep" ],
        Ev("settle", m.dsp[k].job.owner,
           IF ok THEN "resolve" ELSE "reject", m.dsp[k].job.lic))

\* a dispatcher without the flag's test
processWebhookQueueUnguarded(m) ==
    IF Len(m.webhookQueue) = 0 THEN m
    ELSE LoopTop([ m EXCEPT !.isProcessingWebhook = TRUE,
                            !.dsp = Append(@, [ pc |-> "top", job |-> NoJob ]) ],
                 Len(m.dsp) + 1)

(* processWebhookQueue, lines 80-87, as far as it runs without suspending:  *)
(* it returns at once when a loop is active or the queue is empty; else it  *)
(* sets the flag, and its loop takes the head job and suspends in the       *)
(* job's fetch.                                                             *)
processWebhookQueue(m) ==
    IF m.isProcessingWebhook \/ Len(m.webhookQueue) = 0 THEN m
    ELSE LoopTop([ m EXCEPT !.isProcessingWebhook = TRUE,
                            !.dsp = Append(@, [ pc |-> "top", job |-> NoJob ]) ],
                 Len(m.dsp) + 1)

(* sendWebhook, lines 108-113: push the job, start the dispatcher; the      *)
(* caller's await of the returned promise suspends it at pc.                *)
sendWebhook(m, pc, meta) ==
    LET f   == Top(m)
        job == [ owner |-> m.cur, type |-> f.type, lic |-> f.lic, meta |-> meta ]
        m1  == Log([ m EXCEPT !.webhookQueue = Append(@, job) ],
                   Ev("enqueue", m.cur, f.type, f.lic))
    IN  Suspend(processWebhookQueue(m1), pc)

\* a call of sendHookAsync(type, msg, licenseId, asfResult)
CallHook(m, retpc, type, lic, res) ==
    Call(Log(m, Ev("emit", m.cur, type, lic)), retpc,
         [ Frame("sendHookAsync") EXCEPT !.type = type, !.lic = lic, !.res = res ])

\* consoleAndWebhookAsync(type, msg), lines 416-430: log, then sendHookAsync
consoleAndWebhookAsync(m, retpc, type) == CallHook(m, retpc, type, "", NoRes)

\* license.type after the replacements of lines 457-460
LicenseType(licenseId) ==
    CASE licenseId = "a/1" -> "app"
      [] licenseId = "s/2" -> "sub"
      [] OTHER             -> "sub"

\* a sendHookAsync without the test of the URL
sendHookAsyncNoUrlTest(m) ==
    LET f == Top(m)
        types == m.config.webhookEnabledTypes
    IN  CASE f.pc = "begin" ->
               SetTop(m, [ f EXCEPT !.pc = "loop", !.ti = 1 ])
          [] f.pc = "loop" ->
               IF f.ti > Len(types) THEN Return(m, Undefined)
               ELSE IF types[f.ti] = f.type /\ f.lic # ""
               THEN IF LicenseType(f.lic) = "app"
                    THEN Call(m, "metaApp", Frame("parseAppMetaAsync"))
                    ELSE Call(m, "metaSub", Frame("parseSubApps"))
               ELSE IF types[f.ti] = f.type
               THEN sendWebhook(m, "sentPlain", "")
               ELSE SetTop(m, [ f EXCEPT !.ti = f.ti + 1 ])
          [] f.pc = "metaApp" ->
               SetTop(m, [ f EXCEPT !.pc = "metaLoop", !.metas = <<m.rv>>, !.mi = 1 ])
          [] f.pc = "metaSub" ->
               SetTop(m, [ f EXCEPT !.pc = "metaLoop", !.metas = m.rv.list, !.mi = 1 ])
          [] f.pc = "metaLoop" ->
               IF f.mi > Len(f.metas)
               THEN SetTop(m, [ f EXCEPT !.pc = "loop", !.ti = f.ti + 1,
                                         !.metas = <<>>, !.mi = 0 ])
               ELSE sendWebhook(m, "sentMeta",
                                IF f.metas[f.mi].tag = "data" THEN "data"
                                ELSE "placeholder")
          [] f.pc = "sentMeta" ->
               IF m.rv.tag = "resolve"
               THEN SetTop([ m EXCEPT !.sig = "run" ],
                           [ f EXCEPT !.pc = "metaLoop", !.mi = f.mi + 1 ])
               ELSE Raise(m, [ tag |-> "webhook" ])
          [] f.pc = "sentPlain" ->
               IF m.rv.tag = "resolve"
               THEN SetTop([ m EXCEPT !.sig = "run" ],
                           [ f EXCEPT !.pc = "loop", !.ti = f.ti + 1 ])
               ELSE Raise(m, [ tag |-> "webhook" ])

(* sendHookAsync, lines 439-564 *)
sendHookAsync(m) ==
    LET f == Top(m)
        types == m.config.webhookEnabledTypes
    IN  CASE f.pc = "begin" ->
               IF m.config.webhookUrl = "" \/ m.config.webhookUrl = "none"
               THEN Return(m, Undefined)
               ELSE SetTop(m, [ f EXCEPT !.pc = "loop", !.ti = 1 ])
          [] f.pc = "loop" ->
               IF f.ti > Len(types) THEN Return(m, Undefined)
               ELSE IF types[f.ti] = f.type /\ f.lic # ""
               THEN IF LicenseType(f.lic) = "app"
                    THEN Call(m, "metaApp", Frame("parseAppMetaAsync"))
                    ELSE Call(m, "metaSub", Frame("parseSubApps"))
               ELSE IF types[f.ti] = f.type
               THEN sendWebhook(m, "sentPlain", "")
               ELSE SetTop(m, [ f EXCEPT !.ti = f.ti + 1 ])
          [] f.pc = "metaApp" ->
               SetTop(m, [ f EXCEPT !.pc = "metaLoop", !.metas = <<m.rv>>, !.mi = 1 ])
          [] f.pc = "metaSub" ->
               SetTop(m, [ f EXCEPT !.pc = "metaLoop", !.metas = m.rv.list, !.mi = 1 ])
          [] f.pc = "metaLoop" ->
               IF f.mi > Len(f.metas)
               THEN SetTop(m, [ f EXCEPT !.pc = "loop", !.ti = f.ti + 1,
                                         !.metas = <<>>, !.mi = 0 ])
               ELSE sendWebhook(m, "sentMeta",
                                IF f.metas[f.mi].tag = "data" THEN "data"
                                ELSE "placeholder")
          [] f.pc = "sentMeta" ->
               IF m.rv.tag = "resolve"
               THEN SetTop([ m EXCEPT !.sig = "run" ],
                           [ f EXCEPT !.pc = "metaLoop", !.mi = f.mi + 1 ])
               ELSE Raise(m, [ tag |-> "webhook" ])
          [] f.pc = "sentPlain" ->
               IF m.rv.tag = "resolve"
               THEN SetTop([ m EXCEPT !.sig = "run" ],
                           [ f EXCEPT !.pc = "loop", !.ti = f.ti + 1 ])
               ELSE Raise(m, [ tag |-> "webhook" ])

(* parseAppMetaAsync, lines 571-593 *)
parseAppMetaAsync(m) ==
    LET f == Top(m)
    IN  CASE f.pc = "begin" -> Suspend(m, "fetch")
          [] f.pc = "fetch" ->
               IF m.rv.tag = "ok" THEN Return(m, [ tag |-> "data" ])
               ELSE IF m.rv.tag = "nonsuccess"
               THEN CallHook(m, "warned", "warn", "", NoRes)
               ELSE Goto(m, "catch")
          [] f.pc = "warned" -> Return(m, Undefined)
          [] f.pc = "catch" -> CallHook(m, "caught", "warn", "", NoRes)
          [] f.pc = "caught" -> Return(m, Undefined)

(* parseSubApps, lines 600-632 *)
parseSubApps(m) ==
    LET f == Top(m)
    IN  CASE f.pc = "begin" -> Suspend(m, "fetch")
          [] f.pc = "fetch" ->
               IF m.rv.tag = "ok"
               THEN SetTop(m, [ f EXCEPT !.pc = "appLoop", !.n = m.rv.n, !.i = 1 ])
               ELSE IF m.rv.tag = "nonsuccess"
               THEN CallHook(m, "warned", "warn", "", NoRes)
               ELSE Goto(m, "catch")
          [] f.pc = "warned" ->
               SetTop(m, [ f EXCEPT !.pc = "appLoop", !.n = 0, !.i = 1 ])
          [] f.pc = "catch" -> CallHook(m, "caught", "warn", "", NoRes)
          [] f.pc = "caught" -> Raise(m, [ tag |-> "TypeError" ])
          [] f.pc = "appLoop" ->
               IF f.i > f.n THEN Return(m, [ tag |-> "list", list |-> f.metas ])
               ELSE Call(m, "appDone", Frame("parseAppMetaAsync"))
          [] f.pc = "appDone" ->
               SetTop(m, [ f EXCEPT !.pc = "appLoop", !.metas = Append(@, m.rv),
                                    !.i = f.i + 1 ])

-----------------------------------------------------------------------------
(* The connectivity gate *)

\* a gate that gives up one attempt early
checkConnectionOneLess(m) ==
    LET f == Top(m)
    IN  CASE f.pc = "begin" -> SetTop(m, [ f EXCEPT !.pc = "loop", !.i = 1 ])
          [] f.pc = "loop" ->
               IF f.i >= maxRetries THEN Exit(m, 1)
               ELSE Suspend(Log(m, Ev("query", m.cur, "stats", "")), "fetch")
          [] f.pc = "fetch" ->
               IF m.rv.tag = "body" /\ m.rv.body.Success
               THEN Return(Log(m, Ev("reachable", m.cur, "", "")), Undefined)
               ELSE Suspend(m, "sleep")
          [] f.pc = "sleep" ->
               SetTop(m, [ f EXCEPT !.pc = "loop", !.i = f.i + 1 ])

(* checkConnection, lines 307-355; f.i is attemptNumber *)
checkConnection(m) ==
    LET f == Top(m)
    IN  CASE f.pc = "begin" -> SetTop(m, [ f EXCEPT !.pc = "loop", !.i = 1 ])
          [] f.pc = "loop" ->
               IF f.i > maxRetries THEN Exit(m, 1)
               ELSE Suspend(Log(m, Ev("query", m.cur, "stats", "")), "fetch")
          [] f.pc = "fetch" ->
               IF m.rv.tag = "body" /\ m.rv.body.Success
               THEN Return(Log(m, Ev("reachable", m.cur, "", "")), Undefined)
               ELSE Suspend(m, "sleep")
          [] f.pc = "sleep" ->
               SetTop(m, [ f EXCEPT !.pc = "loop", !.i = f.i + 1 ])

\* a gate that polls once and goes on whatever the status
checkUserLoggedInOnePoll(m) ==
    LET f == Top(m)
    IN  CASE f.pc = "begin" ->
               Suspend(Log(m, Ev("query", m.cur, "status", "")), "fetch")
          [] f.pc = "fetch" ->
               IF m.rv.tag # "body" THEN Raise(m, [ tag |-> "transport" ])
               ELSE IF m.rv.body.Success /\ m.rv.body.Result # <<>>
               THEN IF parseASFStatus(m.rv.body.Result).isDone
                    THEN consoleAndWebhookAsync(Log(m, Ev("ready", m.cur, "", "")),
                                                "done", "info")
                    ELSE consoleAndWebhookAsync(m, "done", "info")
               ELSE Raise(m, [ tag |-> "Error" ])
          [] f.pc = "sleep" -> Goto(m, "begin")
          [] f.pc = "done" -> Return(m, Undefined)

\* a gate that sleeps and polls again after a transport error
checkUserLoggedInRetry(m) ==
    LET f == Top(m)
    IN  CASE f.pc = "begin" ->
               Suspend(Log(m, Ev("query", m.cur, "status", "")), "fetch")
          [] f.pc = "fetch" ->
               IF m.rv.tag # "body" THEN Suspend(m, "sleep")
               ELSE IF m.rv.body.Success /\ m.rv.body.Result # <<>>
               THEN IF parseASFStatus(m.rv.body.Result).isDone
                    THEN consoleAndWebhookAsync(Log(m, Ev("ready", m.cur, "", "")),
                                                "done", "info")
                    ELSE Suspend(m, "sleep")
               ELSE Raise(m, [ tag |-> "Error" ])
          [] f.pc = "sleep" -> Goto(m, "begin")
          [] f.pc = "done" -> Return(m, Undefined)

\* a gate that does not ask for the status
checkUserLoggedInNoPoll(m) == Return(m, Undefined)

(* checkUserLoggedIn, lines 361-408 *)
checkUserLoggedIn(m) ==
    LET f == Top(m)
    IN  CASE f.pc = "begin" ->
               Suspend(Log(m, Ev("query", m.cur, "status", "")), "fetch")
          [] f.pc = "fetch" ->
               IF m.rv.tag # "body" THEN Raise(m, [ tag |-> "transport" ])
               ELSE IF m.rv.body.Success /\ m.rv.body.Result # <<>>
               THEN IF parseASFStatus(m.rv.body.Result).isDone
                    THEN consoleAndWebhookAsync(Log(m, Ev("ready", m.cur, "", "")),
                                                "done", "info")
                    ELSE Suspend(m, "sleep")
               ELSE Raise(m, [ tag |-> "Error" ])
          [] f.pc = "sleep" -> Goto(m, "begin")
          [] f.pc = "done" -> Return(m, Undefined)

-----------------------------------------------------------------------------
(* The claim cycle *)

\* a save that leaves the file as it is
saveProcessedLicensesStale(m) == Log(m, Ev("save", m.cur, "", ""))

\* saveProcessedLicenses, lines 175-177
saveProcessedLicenses(m) ==
    Log([ m EXCEPT !.disk.file = [ st |-> "ok", v |-> m.processedLicenses ] ],
        Ev("save", m.cur, "", ""))

\* new codes that are all the codes of the list
NewCodesAll(codes, processed) == codes

\* codes.filter(code => !processedLicenses.includes(code)), line 210
NewCodes(codes, processed) == FilterOut(codes, processed)

\* a batch that is not cut to 40
BatchUncut(newCodes) == Reverse(newCodes)

\* a batch taken from the top of the list
BatchFromTop(newCodes) == Slice0(newCodes, BatchSize)

\* newCodes.reverse(); newCodes.slice(0, 40), lines 213-215
Batch(newCodes) == Slice0(Reverse(newCodes), BatchSize)

\* a push that replaces the list by the new code
MarkProcessedOnly(m, code) ==
    saveProcessedLicenses(
        Log([ m EXCEPT !.processedLicenses = <<code>> ],
            Ev("push", m.cur, "", code)))

\* a push that is not followed by the save
MarkProcessedUnsaved(m, code) ==
    Log([ m EXCEPT !.processedLicenses = Append(@, code) ],
        Ev("push", m.cur, "", code))

\* lines 253-254
MarkProcessed(m, code) ==
    saveProcessedLicenses(
        Log([ m EXCEPT !.processedLicenses = Append(@, code) ],
            Ev("push", m.cur, "", code)))

\* a then-callback that does not look for a rate limit
OnClaimBodyNoRateLimit(m, body) ==
    LET f == Top(m)
        currentLicense == f.batch[f.i]
    IN  IF body.Success
        THEN IF body.null THEN Raise(m, [ tag |-> "TypeError" ])
             ELSE CallHook(MarkProcessed(m, currentLicense),
                           "afterSuccess", "success", currentLicense, NoRes)
        ELSE CallHook(SetTop(m, [ f EXCEPT !.body = body ]),
                      "afterNonSuccess", "error", "", NoRes)

\* a then-callback that reports a rate limit on the console only
OnClaimBodySilentRateLimit(m, body) ==
    LET f == Top(m)
        currentLicense == f.batch[f.i]
    IN  IF body.Success
        THEN IF body.null THEN Raise(m, [ tag |-> "TypeError" ])
             ELSE LET asfResult == parseASFResult(body.Result)
                  IN  IF hasRateLimit(asfResult)
                      THEN Goto(Log(m, Ev("limited", m.cur, "", currentLicense)),
                                "afterRateLimit")
                      ELSE CallHook(MarkProcessed(m, currentLicense),
                                    "afterSuccess", "success", currentLicense,
                                    IF m.config.webhookShowAccountStatus = "true"
                                    THEN [ has |-> TRUE, v |-> asfResult ]
                                    ELSE NoRes)
        ELSE CallHook(SetTop(m, [ f EXCEPT !.body = body ]),
                      "afterNonSuccess", "error", "", NoRes)

(* the then-callback of lines 234-267, on the body of the agent's answer *)
OnClaimBody(m, body) ==
    LET f == Top(m)
        currentLicense == f.batch[f.i]
    IN  IF body.Success
        THEN IF body.null THEN Raise(m, [ tag |-> "TypeError" ])
             ELSE LET asfResult == parseASFResult(body.Result)
                  IN  IF hasRateLimit(asfResult)
                      THEN CallHook(Log(m, Ev("limited", m.cur, "", currentLicense)),
                                    "afterRateLimit", "error", currentLicense,
                                    [ has |-> TRUE, v |-> asfResult ])
                      ELSE CallHook(MarkProcessed(m, currentLicense),
                                    "afterSuccess", "success", currentLicense,
                                    IF m.config.webhookShowAccountStatus = "true"
                                    THEN [ has |-> TRUE, v |-> asfResult ]
                                    ELSE NoRes)
        ELSE CallHook(SetTop(m, [ f EXCEPT !.body = body ]),
                      "afterNonSuccess", "error", "", NoRes)

\* a non-success answer after which the loop goes on
AfterNonSuccessGoOn(m) ==
    SetTop(m, [ Top(m) EXCEPT !.pc = "loop", !.i = @ + 1 ])

\* lines 264-265: body.Result.StatusCode is read, then process.exit(1)
AfterNonSuccess(m) ==
    IF Top(m).body.null THEN Raise(m, [ tag |-> "TypeError" ])
    ELSE Exit(m, 1)

\* a cycle that returns after "No new packages found."
checkGameReturnsAfterNoNew(m) ==
    LET f == Top(m)
    IN  CASE f.pc = "begin" -> consoleAndWebhookAsync(m, "afterChecking", "info")
          [] f.pc = "afterChecking" ->
               Suspend(Log(m, Ev("query", m.cur, "gist", "")), "gist")
          [] f.pc = "gist" ->
               IF m.rv.tag # "ok" THEN Raise(m, [ tag |-> "gist" ])
               ELSE LET codes    == ParseCodes(m.rv.content)
                        newCodes == NewCodes(codes, m.processedLicenses)
                    IN  IF Len(newCodes) > 0
                        THEN SetTop(m, [ f EXCEPT !.pc = "loop",
                                                  !.batch = Batch(newCodes),
                                                  !.i = 1 ])
                        ELSE consoleAndWebhookAsync(m, "afterNoNew", "info")
          [] f.pc = "loop" ->
               IF f.i > Len(f.batch)
               THEN Goto(m, "nextRun")
               ELSE Suspend(m, "sleep")
          [] f.pc = "sleep" ->
               Suspend(Log(SetTop(m, [ f EXCEPT !.sent = @ + 1 ]),
                           Ev("submit", m.cur, "", f.batch[f.i])), "response")
          [] f.pc = "response" ->
               IF m.rv.tag # "body" THEN Raise(m, [ tag |-> "transport" ])
               ELSE OnClaimBody(m, m.rv.body)
          [] f.pc \in {"afterRateLimit", "afterSuccess"} ->
               SetTop(m, [ f EXCEPT !.pc = "loop", !.i = f.i + 1 ])
          [] f.pc = "afterNonSuccess" -> AfterNonSuccess(m)
          [] f.pc = "catchSubmit" ->
               CallHook(m, "afterCatchSubmit", "error", "", NoRes)
          [] f.pc = "afterCatchSubmit" -> Exit(m, 1)
          [] f.pc = "catchCycle" ->
               CallHook(m, "afterCatchCycle", "error", "", NoRes)
          [] f.pc = "afterCatchCycle" -> Exit(m, 1)
          [] f.pc = "afterNoNew" -> Return(m, Undefined)
          [] f.pc = "nextRun" -> consoleAndWebhookAsync(m, "afterNextRun", "info")
          [] f.pc = "afterNextRun" -> Return(m, Undefined)

\* a cycle that submits without the delay of line 221
checkGameNoSpacing(m) ==
    LET f == Top(m)
    IN  CASE f.pc = "begin" -> consoleAndWebhookAsync(m, "afterChecking", "info")
          [] f.pc = "afterChecking" ->
               Suspend(Log(m, Ev("query", m.cur, "gist", "")), "gist")
          [] f.pc = "gist" ->
               IF m.rv.tag # "ok" THEN Raise(m, [ tag |-> "gist" ])
               ELSE LET codes    == ParseCodes(m.rv.content)
                        newCodes == NewCodes(codes, m.processedLicenses)
                    IN  IF Len(newCodes) > 0
                        THEN SetTop(m, [ f EXCEPT !.pc = "loop",
                                                  !.batch = Batch(newCodes),
                                                  !.i = 1 ])
                        ELSE consoleAndWebhookAsync(m, "afterNoNew", "info")
          [] f.pc = "loop" ->
               IF f.i > Len(f.batch)
               THEN Goto(m, "nextRun")
               ELSE Suspend(Log(SetTop(m, [ f EXCEPT !.sent = @ + 1 ]),
                                Ev("submit", m.cur, "", f.batch[f.i])), "response")
          [] f.pc = "sleep" ->
               Suspend(Log(SetTop(m, [ f EXCEPT !.sent = @ + 1 ]),
                           Ev("submit", m.cur, "", f.batch[f.i])), "response")
          [] f.pc = "response" ->
               IF m.rv.tag # "body" THEN Raise(m, [ tag |-> "transport" ])
               ELSE OnClaimBody(m, m.rv.body)
          [] f.pc \in {"afterRateLimit", "afterSuccess"} ->
               SetTop(m, [ f EXCEPT !.pc = "loop", !.i = f.i + 1 ])
          [] f.pc = "afterNonSuccess" -> AfterNonSuccess(m)
          [] f.pc = "catchSubmit" ->
               CallHook(m, "afterCatchSubmit", "error", "", NoRes)
          [] f.pc = "afterCatchSubmit" -> Exit(m, 1)
          [] f.pc = "catchCycle" ->
               CallHook(m, "afterCatchCycle", "error", "", NoRes)
          [] f.pc = "afterCatchCycle" -> Exit(m, 1)
          [] f.pc = "afterNoNew" -> Goto(m, "nextRun")
          [] f.pc = "nextRun" -> consoleAndWebhookAsync(m, "afterNextRun", "info")
          [] f.pc = "afterNextRun" -> Return(m, Undefined)

(* checkGame, lines 196-301 *)
checkGame(m) ==
    LET f == Top(m)
    IN  CASE f.pc = "begin" -> consoleAndWebhookAsync(m, "afterChecking", "info")
          [] f.pc = "afterChecking" ->
               Suspend(Log(m, Ev("query", m.cur, "gist", "")), "gist")
          [] f.pc = "gist" ->
               IF m.rv.tag # "ok" THEN Raise(m, [ tag |-> "gist" ])
               ELSE LET codes    == ParseCodes(m.rv.content)
                        newCodes == NewCodes(codes, m.processedLicenses)
                    IN  IF Len(newCodes) > 0
                        THEN SetTop(m, [ f EXCEPT !.pc = "loop",
                                                  !.batch = Batch(newCodes),
                                                  !.i = 1 ])
                        ELSE consoleAndWebhookAsync(m, "afterNoNew", "info")
          [] f.pc = "loop" ->
               IF f.i > Len(f.batch)
               THEN Goto(m, "nextRun")
               ELSE Suspend(m, "sleep")
          [] f.pc = "sleep" ->
               Suspend(Log(SetTop(m, [ f EXCEPT !.sent = @ + 1 ]),
                           Ev("submit", m.cur, "", f.batch[f.i])), "response")
          [] f.pc = "response" ->
               IF m.rv.tag # "body" THEN Raise(m, [ tag |-> "transport" ])
               ELSE OnClaimBody(m, m.rv.body)
          [] f.pc \in {"afterRateLimit", "afterSuccess"} ->
               SetTop(m, [ f EXCEPT !.pc = "loop", !.i = f.i + 1 ])
          [] f.pc = "afterNonSuccess" -> AfterNonSuccess(m)
          [] f.pc = "catchSubmit" ->
               CallHook(m, "afterCatchSubmit", "error", "", NoRes)
          [] f.pc = "afterCatchSubmit" -> Exit(m, 1)
          [] f.pc = "catchCycle" ->
               CallHook(m, "afterCatchCycle", "error", "", NoRes)
          [] f.pc = "afterCatchCycle" -> Exit(m, 1)
          [] f.pc = "afterNoNew" -> Goto(m, "nextRun")
          [] f.pc = "nextRun" -> consoleAndWebhookAsync(m, "afterNextRun", "info")
          [] f.pc = "afterNextRun" -> Return(m, Undefined)

-----------------------------------------------------------------------------
(* The module's top-level code *)

\* a validation that takes every number
IntervalInvalidNaNOnly(interval) == interval.nan

\* isNaN(Number(config.interval)) || Number(config.interval) <= 0, line 64
IntervalInvalid(interval) == interval.nan \/ interval.n <= 0

(* lines 60-190: validateConfig, the storage directory, the load of the    *)
(* processed licenses, the migration, the start-up notifications, the gate, *)
(* the initial cycle and setInterval.                                       *)
main(m) ==
    LET f == Top(m)
    IN  CASE f.pc = "begin" ->
               IF IntervalInvalid(m.config.interval) THEN Exit(m, 1)
               ELSE IF ~m.disk.dirOk THEN Exit(m, 1)
               ELSE IF m.disk.file.st = "ENOENT"
               THEN Goto([ m EXCEPT !.processedLicenses = <<>>,
                                    !.disk.file = [ st |-> "ok", v |-> <<>> ] ],
                         "migration")
               ELSE IF m.disk.file.st = "ok"
               THEN Goto([ m EXCEPT !.processedLicenses = m.disk.file.v ],
                         "migration")
               ELSE Exit(m, 1)
          [] f.pc = "migration" ->
               IF m.disk.marker.st = "ok"
               THEN Suspend(Log(m, Ev("query", m.cur, "gist", "")), "migrateGist")
               ELSE Goto(m, "hookEnabled")
          [] f.pc = "migrateGist" ->
               LET codes == ParseCodes(m.rv.content)
                   migratedLicenses == Slice0(codes, m.disk.marker.n)
                   m1 == IF m.rv.tag = "ok"
                         THEN saveProcessedLicenses(
                                [ m EXCEPT !.processedLicenses =
                                      Dedup(@ \o migratedLicenses) ])
                         ELSE m
               IN  Goto([ m1 EXCEPT !.disk.marker = [ st |-> "ENOENT", n |-> 0 ] ],
                        "hookEnabled")
          [] f.pc = "hookEnabled" ->
               IF m.config.webhookUrl # "" /\ m.config.webhookUrl # "none"
               THEN consoleAndWebhookAsync(m, "started", "info")
               ELSE Goto(m, "started")
          [] f.pc = "started" -> consoleAndWebhookAsync(m, "connect", "info")
          [] f.pc = "connect" -> Call(m, "login", Frame("checkConnection"))
          [] f.pc = "login" -> Call(m, "game", Frame("checkUserLoggedIn"))
          [] f.pc = "game" -> Call(m, "interval", Frame("checkGame"))
          [] f.pc = "interval" -> Return([ m EXCEPT !.timer = TRUE ], Undefined)

-----------------------------------------------------------------------------
(* Running a call chain to its next suspension *)

(* where an exception raised at pc of fn, or in a call awaited there, is   *)
(* caught: the .catch of lines 268-273, the catch of lines 278-298, the     *)
(* .catch of lines 588-592 and 618-622; "" where nothing catches it.        *)
Handler(fn, pc) ==
    CASE fn = "checkGame"
           /\ pc \in {"response", "afterRateLimit", "afterSuccess", "afterNonSuccess"}
           -> "catchSubmit"
      [] fn = "checkGame"
           /\ pc \in {"gist", "afterNoNew", "catchSubmit", "afterCatchSubmit"}
           -> "catchCycle"
      [] fn \in {"parseAppMetaAsync", "parseSubApps"} /\ pc = "warned" -> "catch"
      [] OTHER -> ""

(* one step: the code of the top frame; an exception unwinds to a handler   *)
(* (the frame's err keeps where the first one was caught); a chain that     *)
(* ends with an exception is an unhandled rejection, which ends the         *)
(* process with exit code 1.                                                *)
Step(m) ==
    IF Stack(m) = <<>>
    THEN IF m.sig = "throw" THEN Exit(m, 1) ELSE [ m EXCEPT !.sig = "susp" ]
    ELSE IF m.sig = "throw"
    THEN LET h == Handler(Top(m).fn, Top(m).pc)
         IN  IF h # ""
             THEN [ SetTop(m, [ Top(m) EXCEPT !.pc = h,
                                              !.err = IF @ = "" THEN Top(m).pc ELSE @ ])
                    EXCEPT !.sig = "run" ]
             ELSE [ m EXCEPT !.th[m.cur] = SubSeq(@, 1, Len(@) - 1) ]
    ELSE LET fn == Top(m).fn
             m1 == [ m EXCEPT !.sig = "run" ]
         IN  CASE fn = "main" -> main(m1)
               [] fn = "checkConnection" -> checkConnection(m1)
               [] fn = "checkUserLoggedIn" -> checkUserLoggedIn(m1)
               [] fn = "checkGame" -> checkGame(m1)
               [] fn = "sendHookAsync" -> sendHookAsync(m1)
               [] fn = "parseAppMetaAsync" -> parseAppMetaAsync(m1)
               [] fn = "parseSubApps" -> parseSubApps(m1)

RECURSIVE Run(_)
Run(m) ==
    \* x is the value of m: every step is applied to a machine state
    CHOOSE r \in { IF x.sig = "susp" THEN x ELSE Run(Step(x)) : x \in {m} } : TRUE

\* the program's state as a machine state
Mach ==
    [ config |-> config, docs |-> docs, disk |-> disk,
      processedLicenses |-> processedLicenses, th |-> th,
      webhookQueue |-> webhookQueue, isProcessingWebhook |-> isProcessingWebhook,
      dsp |-> dsp, timer |-> timer, ticks |-> ticks, exitCode |-> exitCode,
      out |-> <<>>, cur |-> 0, sig |-> "susp", rv |-> Undefined ]

Commit(m) ==
    /\ config' = m.config
    /\ docs' = m.docs
    /\ disk' = m.disk
    /\ processedLicenses' = m.processedLicenses
    /\ th' = m.th
    /\ webhookQueue' = m.webhookQueue
    /\ isProcessingWebhook' = m.isProcessingWebhook
    /\ dsp' = m.dsp
    /\ timer' = m.timer
    /\ ticks' = m.ticks
    /\ exitCode' = m.exitCode
    /\ out' = m.out
    /\ hist' = [ hist EXCEPT
                   !.gate = IF @ = "reachable" /\ \E x \in Range(m.out) : x.ev = "ready"
                            THEN "ready"
                            ELSE IF @ = "" /\ \E x \in Range(m.out) : x.ev = "reachable"
                            THEN "reachable"
                            ELSE @,
                   !.claimed = IF ~hist.on THEN @
                               ELSE @ \cup { <<e.code, e.t>> :
                                   e \in { x \in Range(m.out) : x.ev = "push" } },
                   !.limited = IF ~hist.on THEN @
                               ELSE @ \cup { <<e.code, e.t>> :
                                   e \in { x \in Range(m.out) : x.ev = "limited" } } ]

\* chain t resumes with value rv and runs until it suspends
Resume(m, t, rv) == Run([ m EXCEPT !.cur = t, !.sig = "run", !.rv = rv ])

Running == exitCode = NotExited

\* chain t is suspended at pc of fn
At(t, fn, pc) ==
    /\ Running
    /\ th[t] # <<>>
    /\ th[t][Len(th[t])].fn = fn
    /\ th[t][Len(th[t])].pc = pc

-----------------------------------------------------------------------------
(* The initial states: the process has been started and has run nothing *)

Interval(nan, n) == [ nan |-> nan, n |-> n ]

Cfg(interval, url, types, show) ==
    [ interval |-> interval, webhookUrl |-> url,
      webhookEnabledTypes |-> types, webhookShowAccountStatus |-> show ]

DefaultTypes == <<"error", "warn", "success">>

\* the configurations checked: ASF_CLAIM_INTERVAL, WEBHOOK_URL,
\* WEBHOOK_ENABLEDTYPES, WEBHOOK_SHOWACCOUNTSTATUS
Configs ==
    { Cfg(Interval(FALSE, 3), "none", DefaultTypes, "true"),
      Cfg(Interval(FALSE, 3), "url", DefaultTypes, "true"),
      Cfg(Interval(FALSE, 3), "url", <<"info", "error">>, "false"),
      Cfg(Interval(TRUE, 0), "url", DefaultTypes, "true"),
      Cfg(Interval(FALSE, 0), "none", DefaultTypes, "true") }

File(st, v) == [ st |-> st, v |-> v ]

Marker(st, n) == [ st |-> st, n |-> n ]

\* the storage directory when the process starts
Disk(dirOk, file, marker) == [ dirOk |-> dirOk, file |-> file, marker |-> marker ]

Disks ==
    { Disk(TRUE, File("ENOENT", <<>>), Marker("ENOENT", 0)),
      Disk(TRUE, File("ok", <<"3">>), Marker("ok", 1)),
      Disk(TRUE, File("bad", <<>>), Marker("ENOENT", 0)),
      Disk(FALSE, File("ENOENT", <<>>), Marker("ENOENT", 0)) }

NoInput == [ kind |-> "", t |-> 0, tag |-> "", body |-> NoBody, content |-> <<>> ]

Input(kind, t, tag, body) ==
    [ NoInput EXCEPT !.kind = kind, !.t = t, !.tag = tag, !.body = body ]

InitWith(cfgs, gists, disks, on) ==
    /\ config \in cfgs
    /\ docs = gists
    /\ disk \in disks
    /\ processedLicenses = <<>>
    /\ th = [ t \in Threads |-> IF t = 0 THEN << Frame("main") >> ELSE <<>> ]
    /\ webhookQueue = <<>>
    /\ isProcessingWebhook = FALSE
    /\ dsp = Idle
    /\ timer = FALSE
    /\ ticks = 0
    /\ exitCode = NotExited
    /\ inp = NoInput
    /\ out = <<>>
    /\ hist = [ on |-> on, gate |-> "", claimed |-> {}, limited |-> {} ]

Init == InitWith(Configs, GistDocs, Disks, FALSE)

-----------------------------------------------------------------------------
(* The events *)

\* node starts the module
Start ==
    /\ At(0, "main", "begin")
    /\ Commit(Resume(Mach, 0, Undefined))
    /\ inp' = Input("start", 0, "", NoBody)

\* octokit.gists.get settles (lines 150, 207): the file's content, or a failure
GistAnswer(t) ==
    /\ At(t, "main", "migrateGist") \/ At(t, "checkGame", "gist")
    /\ \/ \E content \in docs :
            /\ Commit(Resume(Mach, t, [ tag |-> "ok", content |-> content ]))
            /\ inp' = [ Input("gist", t, "ok", NoBody) EXCEPT !.content = content ]
       \/ /\ Commit(Resume(Mach, t, [ tag |-> "fail" ]))
          /\ inp' = Input("gist", t, "fail", NoBody)

\* the agent answers the stats command of checkConnection, or the fetch fails
StatsAnswer(t) ==
    /\ At(t, "checkConnection", "fetch")
    /\ \E tag \in {"body", "error"}, success \in BOOLEAN :
         LET body == [ NoBody EXCEPT !.Success = success ]
         IN  /\ tag = "error" => ~success
             /\ Commit(Resume(Mach, t, [ tag |-> tag, body |-> body ]))
             /\ inp' = Input("stats", t, tag, body)

\* the agent answers the status command of checkUserLoggedIn, or the fetch fails
StatusAnswer(t) ==
    /\ At(t, "checkUserLoggedIn", "fetch")
    /\ \/ \E body \in StatusBodies :
            /\ Commit(Resume(Mach, t, [ tag |-> "body", body |-> body ]))
            /\ inp' = Input("status", t, "body", body)
       \/ /\ Commit(Resume(Mach, t, [ tag |-> "error" ]))
          /\ inp' = Input("status", t, "error", NoBody)

\* the agent answers an addlicense command with one of bodies, or the fetch
\* fails
ClaimAnswerOf(t, bodies) ==
    /\ At(t, "checkGame", "response")
    /\ \/ \E body \in bodies :
            /\ Commit(Resume(Mach, t, [ tag |-> "body", body |-> body ]))
            /\ inp' = Input("claim", t, "body", body)
       \/ /\ Commit(Resume(Mach, t, [ tag |-> "error" ]))
          /\ inp' = Input("claim", t, "error", NoBody)

ClaimAnswer(t) == ClaimAnswerOf(t, ClaimBodies)

\* the Steam store answers appdetails or packagedetails, or the fetch fails
SteamAnswer(t) ==
    /\ At(t, "parseAppMetaAsync", "fetch") \/ At(t, "parseSubApps", "fetch")
    /\ \E tag \in {"ok", "nonsuccess", "error"}, n \in 0 .. MaxApps :
         /\ (tag # "ok" \/ At(t, "parseAppMetaAsync", "fetch")) => n = 0
         /\ Commit(Resume(Mach, t, [ tag |-> tag, n |-> n ]))
         /\ inp' = Input("steam", t, tag, NoBody)

\* a timer of sleep(seconds) fires (lines 221, 352, 401)
SleepDone(t) ==
    /\ \/ At(t, "checkGame", "sleep")
       \/ At(t, "checkConnection", "sleep")
       \/ At(t, "checkUserLoggedIn", "sleep")
    /\ Commit(Resume(Mach, t, Undefined))
    /\ inp' = Input("timer", t, "", NoBody)

\* the timer of setInterval(checkGame, ...) fires: a new call of checkGame
TickUpTo(max) ==
    /\ Running
    /\ timer
    /\ ticks < max
    /\ LET t == ticks + 1
       IN  /\ Commit(Resume([ Mach EXCEPT !.ticks = t,
                                          !.th[t] = << Frame("checkGame") >> ],
                            t, Undefined))
           /\ inp' = Input("tick", t, "", NoBody)

(* the fetch of a dispatcher loop's current job settles (lines 87-97): the  *)
(* job's promise is resolved or rejected, the loop goes on to sleep(0.2),   *)
(* and then the awaiting chain runs.                                        *)
WebhookAnswer(k) ==
    /\ Running
    /\ k \in DOMAIN dsp
    /\ dsp[k].pc = "fetch"
    /\ \E ok \in BOOLEAN :
         /\ Commit(Resume(Settled(Mach, k, ok), dsp[k].job.owner,
                          [ tag |-> IF ok THEN "resolve" ELSE "reject" ]))
         /\ inp' = Input("webhook", dsp[k].job.owner,
                         IF ok THEN "ok" ELSE "fail", NoBody)

(* a dispatcher loop's sleep(0.2) ends (lines 97-99, 84-87): the next job,  *)
(* or the flag is cleared and the call returns.                             *)
WebhookSleepDone(k) ==
    /\ Running
    /\ k \in DOMAIN dsp
    /\ dsp[k].pc = "sleep"
    /\ Commit(LoopTop(Mach, k))
    /\ inp' = Input("wake", 0, "", NoBody)

Tick == TickUpTo(MaxTicks)

Next ==
    \/ Start
    \/ \E t \in Threads : GistAnswer(t)
    \/ \E t \in Threads : StatsAnswer(t)
    \/ \E t \in Threads : StatusAnswer(t)
    \/ \E t \in Threads : ClaimAnswer(t)
    \/ \E t \in Threads : SteamAnswer(t)
    \/ \E t \in Threads : SleepDone(t)
    \/ Tick
    \/ \E k \in Loops : WebhookAnswer(k)
    \/ \E k \in Loops : WebhookSleepDone(k)

Spec == Init /\ [][Next]_vars

-----------------------------------------------------------------------------
(* The program without a notification sink (WEBHOOK_URL unset or "none",    *)
(* the default): sendHookAsync returns at line 441, so the dispatcher and   *)
(* the metadata lookups never run.                                          *)

QuietConfigs == { c \in Configs : c.webhookUrl = "none" }

QuietDocs == GistDocs \cup { <<"a/1", "s/2", "3">> }

InitQuiet == InitWith(QuietConfigs, QuietDocs, Disks, TRUE)

TickQuiet == TickUpTo(MaxQuietTicks)

NextQuiet ==
    \/ Start
    \/ \E t \in Threads : GistAnswer(t)
    \/ \E t \in Threads : StatsAnswer(t)
    \/ \E t \in Threads : StatusAnswer(t)
    \/ \E t \in Threads : ClaimAnswer(t)
    \/ \E t \in Threads : SleepDone(t)
    \/ TickQuiet

SpecQuiet == InitQuiet /\ [][NextQuiet]_vars

(* The same program on a Gist that holds more new codes than one batch. *)

BatchDocs == { <<"a/1">>, LongGist }

InitBatch == InitWith(QuietConfigs, BatchDocs, Disks, TRUE)

\* at most one tick of the timer
TickOnce == TickUpTo(1)

NextBatch ==
    \/ Start
    \/ \E t \in Threads : GistAnswer(t)
    \/ \E t \in Threads : StatsAnswer(t)
    \/ \E t \in Threads : StatusAnswer(t)
    \/ \E t \in Threads : ClaimAnswer(t)
    \/ \E t \in Threads : SleepDone(t)
    \/ TickOnce

SpecBatch == InitBatch /\ [][NextBatch]_vars

(* The program without a sink on a short list, with more of the texts the  *)
(* agent can answer an addlicense command with: several lines of one        *)
(* account, bare OK of every account, a line the parser does not match.     *)

ClassifyTexts ==
    ClaimTexts
    \cup { << Line("bot1", "", StRateLimit), Line("bot1", "", StOKDetail) >>,
           << Line("bot1", "", StOKDetail), Line("bot1", "", StRateLimit) >>,
           << Line("bot1", "", StOK), Line("bot2", "", StOK) >>,
           << NoLine, Line("bot1", "a/1", StRateLimit) >>,
           << NoLine >> }

ClassifyBodies ==
    ClaimBodies \cup [ Success : {TRUE}, null : {FALSE}, Result : ClassifyTexts ]

ClassifyDocs == { <<"a/1", "s/2">> }

InitClassify == InitWith(QuietConfigs, ClassifyDocs, Disks, FALSE)

ClaimAnswerClassify(t) == ClaimAnswerOf(t, ClassifyBodies)

NextClassify ==
    \/ Start
    \/ \E t \in Threads : GistAnswer(t)
    \/ \E t \in Threads : StatsAnswer(t)
    \/ \E t \in Threads : StatusAnswer(t)
    \/ \E t \in Threads : ClaimAnswerClassify(t)
    \/ \E t \in Threads : SleepDone(t)
    \/ TickOnce

SpecClassify == InitClassify /\ [][NextClassify]_vars

(* The program with a notification sink that takes the types info and      *)
(* error, on a Gist whose list is empty: every cycle sends its three info   *)
(* notifications, and the notifications of overlapping cycles meet in the   *)
(* dispatcher.  The start-up, with the gate, is that of the full program.   *)

HookConfigs == { c \in Configs : Includes(c.webhookEnabledTypes, "info") }

HookDocs == { <<>> }

HookDisks == { d \in Disks : d.dirOk /\ d.file.st = "ENOENT" }

InitHook == InitWith(HookConfigs, HookDocs, HookDisks, FALSE)

TickHook == TickUpTo(MaxHookTicks)

NextHook ==
    \/ Start
    \/ \E t \in Threads : GistAnswer(t)
    \/ \E t \in Threads : StatsAnswer(t)
    \/ \E t \in Threads : StatusAnswer(t)
    \/ \E t \in Threads : SleepDone(t)
    \/ TickHook
    \/ \E k \in Loops : WebhookAnswer(k)
    \/ \E k \in Loops : WebhookSleepDone(k)

SpecHook == InitHook /\ [][NextHook]_vars

(* SpecHook with the scheduling the dispatcher relies on: the fetch of a   *)
(* job settles (every delivery attempt terminates) and the timer of         *)
(* sleep(0.2) fires.                                                         *)
SpecHookLive ==
    /\ SpecHook
    /\ WF_vars(\E k \in Loops : WebhookAnswer(k))
    /\ WF_vars(\E k \in Loops : WebhookSleepDone(k))

(* The program without a sink on a fixed list of more lines than a batch    *)
(* holds, every addlicense command answered with a success.  Every request  *)
(* is answered and every timer fires: the actions are weakly fair.          *)

ProgressDocs == { LongGist }

\* the storage directory there; no file, or a file and a marker to migrate
ProgressDisks == { d \in Disks : d.dirOk /\ d.file.st \in {"ENOENT", "ok"} }

InitProgress == InitWith(QuietConfigs, ProgressDocs, ProgressDisks, FALSE)

\* the answer to an addlicense command, classified success (lines 236-252)
ClaimSuccess(t) ==
    /\ ClaimAnswerOf(t, ClaimBodies)
    /\ inp'.tag = "body"
    /\ inp'.body.Success
    /\ ~inp'.body.null
    /\ ~hasRateLimit(parseASFResult(inp'.body.Result))

NextProgress ==
    \/ Start
    \/ \E t \in Threads : GistAnswer(t)
    \/ \E t \in Threads : StatsAnswer(t)
    \/ \E t \in Threads : StatusAnswer(t)
    \/ \E t \in Threads : ClaimSuccess(t)
    \/ \E t \in Threads : SleepDone(t)
    \/ TickQuiet

SpecProgress ==
    /\ InitProgress
    /\ [][NextProgress]_vars
    /\ WF_vars(Start)
    /\ WF_vars(\E t \in Threads : GistAnswer(t))
    /\ WF_vars(\E t \in Threads : StatsAnswer(t))
    /\ WF_vars(\E t \in Threads : StatusAnswer(t))
    /\ WF_vars(\E t \in Threads : ClaimSuccess(t))
    /\ WF_vars(\E t \in Threads : SleepDone(t))
    /\ WF_vars(TickQuiet)

(* The start-up on the states of the storage the migration distinguishes:   *)
(* the marker absent, unparsable ("NaN"), or holding a count of 0, 1 or     *)
(* more than the list has lines; the file of processed licenses absent or   *)
(* holding a code.  No sink, the list fixed.                                *)

MigrateDisks ==
    { Disk(TRUE, f, k) :
        f \in { File("ENOENT", <<>>), File("ok", <<"3">>), File("ok", <<"a/1">>) },
        k \in { Marker("ENOENT", 0), Marker("NaN", 0) }
               \cup { Marker("ok", n) : n \in {0, 1, 3} } }

MigrateDocs == { <<"a/1", "s/2">> }

InitMigrate == InitWith(QuietConfigs, MigrateDocs, MigrateDisks, FALSE)

SpecMigrate == InitMigrate /\ [][NextBatch]_vars

(* The program on a short list of codes, an app and a package, with and     *)
(* without a sink, the storage in order: the notifications of the initial   *)
(* cycle and of one cycle of the timer, with the metadata lookups.           *)

NotifyConfigs == { c \in Configs : ~IntervalInvalid(c.interval) }

NotifyDocs == { <<"a/1", "s/2">> }

InitNotify == InitWith(NotifyConfigs, NotifyDocs, HookDisks, FALSE)

NextNotify ==
    \/ Start
    \/ \E t \in Threads : GistAnswer(t)
    \/ \E t \in Threads : StatsAnswer(t)
    \/ \E t \in Threads : StatusAnswer(t)
    \/ \E t \in Threads : ClaimAnswer(t)
    \/ \E t \in Threads : SteamAnswer(t)
    \/ \E t \in Threads : SleepDone(t)
    \/ TickOnce
    \/ \E k \in Loops : WebhookAnswer(k)
    \/ \E k \in Loops : WebhookSleepDone(k)

SpecNotify == InitNotify /\ [][NextNotify]_vars

-----------------------------------------------------------------------------
(* What the claims speak of *)

\* the frame of checkGame in a stack; F0 when the chain runs no cycle
CycleFrame(stack) ==
    IF \E k \in 1 .. Len(stack) : stack[k].fn = "checkGame"
    THEN stack[CHOOSE k \in 1 .. Len(stack) : stack[k].fn = "checkGame"]
    ELSE F0

\* chain t has called checkGame and the call has not returned
InCycle(t) == CycleFrame(th[t]).fn = "checkGame"

\* the code whose submission chain t's cycle is handling
CurrentLicense(t) == CycleFrame(th[t]).batch[CycleFrame(th[t]).i]

\* the event i is an answer to a submission with a body
Answered(i) == i.kind = "claim" /\ i.tag = "body"

\* ... that reports success and is not classified rate-limited
GenuineSuccess(i) ==
    /\ Answered(i)
    /\ i.body.Success
    /\ ~i.body.null
    /\ ~hasRateLimit(parseASFResult(i.body.Result))

\* ... that reports success and is classified rate-limited
RateLimited(i) ==
    /\ Answered(i)
    /\ i.body.Success
    /\ ~i.body.null
    /\ hasRateLimit(parseASFResult(i.body.Result))

\* the event i is a Success = false answer or a transport error of a submission
Rejected(i) == i.kind = "claim" /\ (i.tag = "error" \/ ~i.body.Success)

\* the events of kind ev that chain t produced in the last step
Produced(o, ev, t) == { j \in 1 .. Len(o) : o[j].ev = ev /\ o[j].t = t }

-----------------------------------------------------------------------------
(* C1 *)

\* C1 (as stated): at any time at most one call of checkGame is in progress.
C1_OneCycleAtATime == Cardinality({ t \in Threads : InCycle(t) }) <= 1

-----------------------------------------------------------------------------
(* C2 *)

\* C2: the step that handles the answer to a submission appends the submitted
\* code to processedLicenses if the answer reports success and is not
\* classified rate-limited, and leaves the list as it is otherwise (rate
\* limit, Success = false, transport error, unusable body); no other step of a
\* cycle changes the list: the only other changes are the load and the
\* migration at start-up.
C2_AddedIffGenuineSuccess ==
    [][ /\ inp'.kind = "claim" =>
              processedLicenses' =
                  IF GenuineSuccess(inp')
                  THEN Append(processedLicenses, CurrentLicense(inp'.t))
                  ELSE processedLicenses
        /\ (inp'.kind # "claim" /\ processedLicenses' # processedLicenses) =>
              /\ inp'.kind \in {"start", "gist"}
              /\ inp'.t = 0
              /\ ~InCycle(0)
      ]_vars

\* a submission has just succeeded and its code has been appended
C2_Witness ==
    /\ GenuineSuccess(inp)
    /\ Produced(out, "push", inp.t) # {}
    /\ processedLicenses # <<>>
    /\ processedLicenses[Len(processedLicenses)] = "s/2"

-----------------------------------------------------------------------------
(* C3 *)

\* C3 (as stated): a cycle neither submits a code nor emits a success
\* notification for a code that a cycle started earlier has already claimed
\* with success.
C3_NoResubmitAfterSuccess ==
    [][ \A j \in 1 .. Len(out') :
            (out'[j].ev = "submit" \/ (out'[j].ev = "emit" /\ out'[j].type = "success"))
            => ~\E u \in Threads :
                   u < out'[j].t /\ <<out'[j].code, u>> \in hist.claimed
      ]_vars

-----------------------------------------------------------------------------
(* C4 *)

\* C4: no step removes a code from processedLicenses: every code in the list
\* before a step (load, migration, push) is in the list after it.
C4_Monotonic ==
    [][ \A c \in Range(processedLicenses) : c \in Range(processedLicenses') ]_vars

\* the list was loaded from the file ("3"), grew in the migration ("a/1")
\* and grew in a cycle ("s/2")
C4_Witness ==
    /\ processedLicenses = <<"3", "a/1", "s/2">>
    /\ disk.file.v = processedLicenses
    /\ disk.marker.st = "ENOENT"

-----------------------------------------------------------------------------
(* C5 *)

\* C5: a call of checkGame sends at most 40 submissions.
C5_AtMost40Submissions ==
    \A t \in Threads : CycleFrame(th[t]).sent <= 40

\* the 40th submission of a cycle whose list held 41 new lines is in flight
C5_Witness ==
    \E t \in Threads :
        /\ At(t, "checkGame", "response")
        /\ CycleFrame(th[t]).sent = 40
        /\ CycleFrame(th[t]).i = Len(CycleFrame(th[t]).batch)

-----------------------------------------------------------------------------
(* C6 *)

\* the lines of a fetched document that name a code not in processed, in order
Unprocessed(content, processed) ==
    SelectSeq(ParseCodes(content), LAMBDA c : c \notin Range(processed))

\* C6: the step that handles the fetched list makes the batch the last
\* min(40, n) of the n unprocessed lines, bottom line first; and the k-th
\* submission of a cycle is the k-th code of its batch.  (So a code is in the
\* batch only together with all unprocessed lines below it.)
C6_BatchIsBottomOfList ==
    [][ /\ (inp'.kind = "gist" /\ inp'.tag = "ok" /\ InCycle(inp'.t)) =>
              LET new == Unprocessed(inp'.content, processedLicenses)
                  n   == Len(new)
                  k   == IF n < 40 THEN n ELSE 40
                  b   == CycleFrame(th'[inp'.t]).batch
              IN  /\ Len(b) = k
                  /\ \A j \in 1 .. k : b[j] = new[n + 1 - j]
        /\ \A j \in 1 .. Len(out') :
              out'[j].ev = "submit" =>
                  LET f == CycleFrame(th'[out'[j].t])
                  IN  /\ f.sent \in 1 .. Len(f.batch)
                      /\ f.batch = CycleFrame(th[out'[j].t]).batch
                      /\ out'[j].code = f.batch[f.sent]
      ]_vars

\* a batch of 40 taken from 41 new lines, the second line of the list last,
\* and its last code is being submitted
C6_Witness ==
    \E t \in Threads :
        /\ Len(CycleFrame(th[t]).batch) = 40
        /\ CycleFrame(th[t]).batch[1] = "3"
        /\ CycleFrame(th[t]).batch[40] = "s/2"
        /\ Produced(out, "submit", t) # {}
        /\ out[Len(out)].code = "s/2"

-----------------------------------------------------------------------------
(* C7 *)

\* the notification sink is configured and takes notifications of this type
Enabled(type) ==
    /\ config.webhookUrl \notin {"", "none"}
    /\ Includes(config.webhookEnabledTypes, type)

\* C7: the step that handles a rate-limited answer leaves processedLicenses
\* and the file as they are and calls sendHookAsync with type "error" for the
\* submitted code (with the sink taking errors, the chain is then in that
\* call); and nothing the chain does while it awaits this call changes the
\* list or the file.
C7_RateLimitedLeavesProcessed ==
    [][ /\ RateLimited(inp') =>
              /\ processedLicenses' = processedLicenses
              /\ disk' = disk
              /\ \E j \in Produced(out', "emit", inp'.t) :
                    out'[j] = Ev("emit", inp'.t, "error", CurrentLicense(inp'.t))
              /\ Enabled("error") =>
                    \E k \in 1 .. Len(th'[inp'.t]) :
                        /\ th'[inp'.t][k].fn = "sendHookAsync"
                        /\ th'[inp'.t][k].type = "error"
                        /\ th'[inp'.t][k].lic = CurrentLicense(inp'.t)
        /\ (inp'.kind \in {"steam", "webhook"}
            /\ CycleFrame(th[inp'.t]).pc = "afterRateLimit") =>
              /\ processedLicenses' = processedLicenses
              /\ disk' = disk
      ]_vars

\* a rate-limited answer has been handled; the chain looks up the code's
\* metadata for the error notification
C7_Witness ==
    /\ RateLimited(inp)
    /\ At(inp.t, "parseAppMetaAsync", "fetch")
    /\ CycleFrame(th[inp.t]).pc = "afterRateLimit"
    /\ ~Includes(processedLicenses, CurrentLicense(inp.t))

-----------------------------------------------------------------------------
(* C8 *)

\* the codes whose submission some cycle other than t's saw rate-limited
LimitedBefore(t) == { p[1] : p \in { q \in hist.limited : q[2] # t } }

Below(codes, c) ==
    SubSeq(codes, 1 + (CHOOSE k \in 1 .. Len(codes) :
                          codes[k] = c /\ \A j \in k + 1 .. Len(codes) : codes[j] # c),
           Len(codes))

-----------------------------------------------------------------------------
(* C9 *)

\* C9 (as stated): the process is not ended by a chain whose cycle got into
\* its error handling from the rate-limited branch or from the branch of the
\* empty new-code set.
C9_TransientNeverFatal ==
    \A j \in 1 .. Len(out) :
        out[j].ev = "exit" =>
            CycleFrame(th[out[j].t]).err \notin {"afterRateLimit", "afterNoNew"}

-----------------------------------------------------------------------------
(* C10 *)

\* where checkGame awaits the error notification of a fatal path
FatalPcs == {"afterNonSuccess", "afterCatchSubmit", "afterCatchCycle"}

\* C10: the step that handles a Success = false answer or a transport error
\* of a submission leaves processedLicenses and the file as they are, calls
\* sendHookAsync with type "error", sends no submission, and either ends the
\* process with exit code 1 or leaves the cycle awaiting an error
\* notification of a fatal path; a chain that awaits such a notification, when
\* it goes on, does the same; and the process ends with no other exit code.
C10_RejectedIsFatal ==
    [][ /\ Rejected(inp') =>
              /\ processedLicenses' = processedLicenses
              /\ disk' = disk
              /\ \E j \in Produced(out', "emit", inp'.t) : out'[j].type = "error"
              /\ Produced(out', "submit", inp'.t) = {}
              /\ \/ exitCode' = 1
                 \/ CycleFrame(th'[inp'.t]).pc \in FatalPcs
        /\ (inp'.kind = "webhook" /\ CycleFrame(th[inp'.t]).pc \in FatalPcs) =>
              /\ processedLicenses' = processedLicenses
              /\ disk' = disk
              /\ Produced(out', "submit", inp'.t) = {}
              /\ \/ exitCode' = 1
                 \/ CycleFrame(th'[inp'.t]).pc \in FatalPcs
        /\ exitCode' \in {NotExited, 1}
      ]_vars

\* the error notification of a Success = false answer has been delivered and
\* the process has ended with exit code 1, a code of the batch left unsubmitted
C10_Witness ==
    /\ inp.kind = "webhook"
    /\ exitCode = 1
    /\ Produced(out, "exit", inp.t) # {}
    /\ CycleFrame(th[inp.t]).pc = "afterNonSuccess"
    /\ CycleFrame(th[inp.t]).err = ""
    /\ CycleFrame(th[inp.t]).i < Len(CycleFrame(th[inp.t]).batch)
    /\ ~Includes(processedLicenses, CurrentLicense(inp.t))

-----------------------------------------------------------------------------
(* C11 *)

\* C11: the step that handles a success answer appends the submitted code to
\* processedLicenses, writes the list to the file and only then calls
\* sendHookAsync for the success notification; nothing is enqueued and no
\* submission is sent in that step before the write, and the chain sends no
\* submission in that step at all; and whenever a success notification for a
\* code is emitted or enqueued, the code is in the list and in the file.
C11_SavedBeforeSuccessHook ==
    [][ /\ GenuineSuccess(inp') =>
              LET t == inp'.t
                  c == CurrentLicense(t)
              IN  /\ processedLicenses' = Append(processedLicenses, c)
                  /\ disk'.file = File("ok", processedLicenses')
                  /\ Produced(out', "submit", t) = {}
                  /\ \E j \in 1 .. Len(out') - 2 :
                        /\ out'[j] = Ev("push", t, "", c)
                        /\ out'[j + 1] = Ev("save", t, "", "")
                        /\ out'[j + 2] = Ev("emit", t, "success", c)
                        /\ \A k \in 1 .. j + 1 :
                              out'[k].ev \notin {"emit", "enqueue", "submit"}
        /\ \A k \in 1 .. Len(out') :
              (out'[k].ev \in {"emit", "enqueue"} /\ out'[k].type = "success")
              => /\ disk'.file.st = "ok"
                 /\ out'[k].code \in Range(disk'.file.v)
                 /\ out'[k].code \in Range(processedLicenses')
      ]_vars

\* the success notification of a code has just been enqueued, after the
\* lookup of the code's metadata; the code is in the file
C11_Witness ==
    /\ inp.kind = "steam"
    /\ \E k \in 1 .. Len(out) :
          /\ out[k] = Ev("enqueue", inp.t, "success", "s/2")
          /\ CycleFrame(th[inp.t]).pc = "afterSuccess"
          /\ CurrentLicense(inp.t) = "s/2"
    /\ Includes(disk.file.v, "s/2")

-----------------------------------------------------------------------------
(* C12 *)

\* the events of kind ev of a step, in the order in which they happened
Events(o, ev) == SelectSeq(o, LAMBDA e : e.ev = ev)

\* what identifies a job: the chain that awaits it, its type and its code
JobKey(job) == <<job.owner, job.type, job.lic>>

EventKey(e) == <<e.t, e.type, e.code>>

\* the jobs whose fetch a loop of the dispatcher awaits
InFlight(d) == SelectSeq(d, LAMBDA l : l.pc = "fetch")

\* C12: the queue keeps the jobs in the order of their enqueueing, and a
\* delivery takes the job at its head: after every step the queue is the queue
\* before the step, followed by the jobs enqueued in the step, less the jobs
\* whose delivery started in the step, which are its first; a step starts at
\* most one delivery, of one job, and it starts none while the fetch of an
\* earlier job has not settled.
C12_DeliveredInEnqueueOrder ==
    [][ LET enq  == Events(out', "enqueue")
            del  == Events(out', "deliver")
            keys == [ i \in 1 .. Len(webhookQueue) |-> JobKey(webhookQueue[i]) ]
                    \o [ i \in 1 .. Len(enq) |-> EventKey(enq[i]) ]
        IN  /\ Len(del) <= 1
            /\ Len(del) <= Len(keys)
            /\ Len(webhookQueue') = Len(keys) - Len(del)
            /\ \A i \in 1 .. Len(webhookQueue') :
                  JobKey(webhookQueue'[i]) = keys[i + Len(del)]
            /\ Len(del) = 1 =>
                  /\ EventKey(del[1]) = keys[1]
                  /\ InFlight(dsp) = <<>>
                  /\ Len(InFlight(dsp')) = 1
                  /\ JobKey(InFlight(dsp')[1].job) = keys[1]
      ]_vars

\* a delivery has just started, of the job at the head of a queue that held
\* two jobs of two chains
C12_Witness ==
    /\ inp.kind = "wake"
    /\ Len(Events(out, "deliver")) = 1
    /\ Len(webhookQueue) = 1
    /\ Len(InFlight(dsp)) = 1
    /\ InFlight(dsp)[1].job.owner # webhookQueue[1].owner

-----------------------------------------------------------------------------
(* C13 *)

\* C13: at any time at most one loop of the dispatcher awaits the fetch of a
\* job, whenever the jobs were enqueued.
C13_OneDeliveryInFlight ==
    Cardinality({ k \in DOMAIN dsp : dsp[k].pc = "fetch" }) <= 1

\* a chain has just enqueued a job while the fetch of another chain's job is
\* in flight: the job waits in the queue
C13_Witness ==
    /\ Len(Events(out, "enqueue")) = 1
    /\ Events(out, "deliver") = <<>>
    /\ Len(InFlight(dsp)) = 1
    /\ InFlight(dsp)[1].job.owner # inp.t
    /\ Len(webhookQueue) = 1
    /\ webhookQueue[1].owner = inp.t
    /\ isProcessingWebhook

-----------------------------------------------------------------------------
(* C14 *)

\* C14: the step in which a fetch settles starts no delivery and leaves the
\* loop in its sleep(0.2); a delivery starts only in the step in which a
\* loop's sleep(0.2) ends, or when no loop is active; and the last loop ends
\* only in the step in which its sleep(0.2) ends, so that a dispatcher that a
\* later enqueue wakes has waited out the sleep after its last delivery.
C14_SpacingBeforeNextDelivery ==
    [][ /\ inp'.kind = "webhook" =>
              /\ Len(Events(out', "settle")) = 1
              /\ Events(out', "deliver") = <<>>
              /\ Len(dsp') = Len(dsp)
              /\ \A k \in DOMAIN dsp :
                    dsp[k].pc = "fetch" /\ dsp[k].job.owner = inp'.t
                    => dsp'[k].pc = "sleep"
        /\ inp'.kind # "webhook" => Events(out', "settle") = <<>>
        /\ Events(out', "deliver") # <<>> => (inp'.kind = "wake" \/ dsp = Idle)
        /\ (dsp # Idle /\ dsp' = Idle) =>
              /\ inp'.kind = "wake"
              /\ \A k \in DOMAIN dsp : dsp[k].pc = "sleep"
      ]_vars

\* the dispatcher had delivered a cycle's first notification, slept and
\* ended; the cycle's next notification has just woken it
C14_Witness ==
    /\ inp.kind = "gist"
    /\ CycleFrame(th[inp.t]).pc = "afterNoNew"
    /\ Len(Events(out, "enqueue")) = 1
    /\ Len(Events(out, "deliver")) = 1
    /\ Len(InFlight(dsp)) = 1
    /\ InFlight(dsp)[1].job.owner = inp.t

-----------------------------------------------------------------------------
(* C15 *)

\* C15: the step in which the fetch of a job fails rejects the promise of
\* that job, drops no job of the queue and leaves the loop in its sleep(0.2);
\* the step in which a loop's sleep(0.2) ends starts the delivery of the job
\* at the head of the queue, whether the delivery before failed or not, and
\* clears the flag and ends the loop when the queue is empty; and the flag is
\* set only while a loop is active that will clear it.
C15_FailedDeliveryDoesNotBlock ==
    [][ /\ (inp'.kind = "webhook" /\ inp'.tag = "fail") =>
              /\ Events(out', "settle") = << Ev("settle", inp'.t, "reject",
                                                InFlight(dsp)[1].job.lic) >>
              /\ InFlight(dsp') = <<>>
              /\ \E k \in DOMAIN dsp' : dsp'[k].pc = "sleep"
              /\ isProcessingWebhook'
              /\ Len(webhookQueue') >= Len(webhookQueue)
              /\ SubSeq(webhookQueue', 1, Len(webhookQueue)) = webhookQueue
        /\ inp'.kind = "wake" =>
              IF webhookQueue # <<>>
              THEN /\ Events(out', "deliver") =
                         << Ev("deliver", webhookQueue[1].owner,
                               webhookQueue[1].type, webhookQueue[1].lic) >>
                   /\ isProcessingWebhook'
              ELSE /\ ~isProcessingWebhook'
                   /\ dsp' = Idle
        /\ isProcessingWebhook' <=> dsp' # Idle
      ]_vars

\* the "No new packages" notification of a cycle failed while the
\* notification of another cycle waited behind it; the loop has slept and has
\* just started the delivery of that notification, and the error notification
\* of the first cycle waits
C15_Witness ==
    /\ inp.kind = "wake"
    /\ exitCode = NotExited
    /\ Len(InFlight(dsp)) = 1
    /\ Len(webhookQueue) = 1
    /\ webhookQueue[1].type = "error"
    /\ webhookQueue[1].owner # InFlight(dsp)[1].job.owner
    /\ CycleFrame(th[webhookQueue[1].owner]).err = "afterNoNew"

-----------------------------------------------------------------------------
(* C16 *)

\* the chain with this stack awaits the promise of a job it enqueued
Awaits(stack) ==
    /\ stack # <<>>
    /\ stack[Len(stack)].fn = "sendHookAsync"
    /\ stack[Len(stack)].pc \in {"sentPlain", "sentMeta"}

\* the jobs whose promise is not settled: in their fetch, or in the queue
Unsettled(q, d) == [ i \in 1 .. Len(InFlight(d)) |-> InFlight(d)[i].job ] \o q

\* C16: a job is neither dropped nor put back: a step changes the number of
\* unsettled jobs by the jobs it enqueues less the promise it settles, and the
\* number of jobs in their fetch by the deliveries it starts less the promise
\* it settles; a promise is settled only in the step in which the fetch of
\* its job settles, once, resolved if the fetch succeeded and rejected if it
\* failed; the chain that awaits a promise goes on only in that step; and
\* every chain that awaits a promise has one unsettled job, every unsettled
\* job a chain that awaits it.
C16_OneAttemptOneSettlement ==
    [][ LET enq == Events(out', "enqueue")
            del == Events(out', "deliver")
            set == Events(out', "settle")
        IN  /\ Len(Unsettled(webhookQueue', dsp')) =
                  Len(Unsettled(webhookQueue, dsp)) + Len(enq) - Len(set)
            /\ Len(InFlight(dsp')) = Len(InFlight(dsp)) + Len(del) - Len(set)
            /\ set # <<>> =>
                  /\ inp'.kind = "webhook"
                  /\ Len(InFlight(dsp)) = 1
                  /\ set = << Ev("settle", InFlight(dsp)[1].job.owner,
                                 IF inp'.tag = "ok" THEN "resolve" ELSE "reject",
                                 InFlight(dsp)[1].job.lic) >>
                  /\ inp'.t = InFlight(dsp)[1].job.owner
            /\ \A t \in Threads :
                  (Awaits(th[t]) /\ th'[t] # th[t]) =>
                      /\ inp'.kind = "webhook"
                      /\ inp'.t = t
                      /\ Len(set) = 1
            /\ \A t \in Threads :
                  Awaits(th'[t]) <=>
                      Cardinality({ i \in 1 .. Len(Unsettled(webhookQueue', dsp')) :
                                      Unsettled(webhookQueue', dsp')[i].owner = t }) = 1
            /\ \A i \in 1 .. Len(Unsettled(webhookQueue', dsp')) :
                  Awaits(th'[Unsettled(webhookQueue', dsp')[i].owner])
      ]_vars

\* the fetch of a job has just failed: its promise is rejected, the job is
\* gone, and the chain that awaited it has gone on into the catch of the cycle
\* and awaits the promise of the error notification it enqueued
C16_Witness ==
    /\ inp.kind = "webhook"
    /\ inp.tag = "fail"
    /\ Events(out, "settle") = << Ev("settle", inp.t, "reject", "") >>
    /\ CycleFrame(th[inp.t]).pc = "afterCatchCycle"
    /\ Awaits(th[inp.t])
    /\ InFlight(dsp) = <<>>
    /\ Len(webhookQueue) = 1
    /\ webhookQueue[1].owner = inp.t
    /\ webhookQueue[1].type = "error"

-----------------------------------------------------------------------------
(* C17 *)

\* the frame a chain is suspended in; F0 when the chain has ended
TopFrame(stack) == IF stack = <<>> THEN F0 ELSE stack[Len(stack)]

\* the event i is an answer to the stats command that reports success
Reachable(i) == i.kind = "stats" /\ i.tag = "body" /\ i.body.Success

\* C17: checkConnection sends the stats command only as its attempt 1 to 5;
\* the step that handles an answer reporting success returns from it and
\* sends no further stats command; the step that handles any other answer or
\* a transport error starts the delay and nothing else; and the step in which
\* the delay ends sends the next attempt after attempts 1 to 4, and after
\* attempt 5 sends nothing and ends the process with exit code 1.
C17_FiveAttemptsThenExit ==
    [][ /\ \A j \in 1 .. Len(out') :
              (out'[j].ev = "query" /\ out'[j].type = "stats") =>
                  /\ TopFrame(th'[out'[j].t]).fn = "checkConnection"
                  /\ TopFrame(th'[out'[j].t]).pc = "fetch"
                  /\ TopFrame(th'[out'[j].t]).i \in 1 .. 5
        /\ inp'.kind = "stats" =>
              LET f == TopFrame(th[inp'.t])
              IN  IF Reachable(inp')
                  THEN /\ \A k \in 1 .. Len(th'[inp'.t]) :
                             th'[inp'.t][k].fn # "checkConnection"
                       /\ out'[1] = Ev("reachable", inp'.t, "", "")
                       /\ \A j \in 1 .. Len(out') :
                             ~(out'[j].ev = "query" /\ out'[j].type = "stats")
                  ELSE /\ TopFrame(th'[inp'.t]) = [ f EXCEPT !.pc = "sleep" ]
                       /\ out' = <<>>
                       /\ exitCode' = NotExited
        /\ (inp'.kind = "timer" /\ TopFrame(th[inp'.t]).fn = "checkConnection") =>
              LET f == TopFrame(th[inp'.t])
              IN  IF f.i < 5
                  THEN /\ out' = << Ev("query", inp'.t, "stats", "") >>
                       /\ TopFrame(th'[inp'.t]) = [ f EXCEPT !.pc = "fetch", !.i = f.i + 1 ]
                       /\ exitCode' = NotExited
                  ELSE /\ f.i = 5
                       /\ out' = << Ev("exit", inp'.t, "", "") >>
                       /\ exitCode' = 1
      ]_vars

\* the delay after the fifth failed attempt has ended and the process has
\* ended with exit code 1
C17_Witness ==
    /\ inp.kind = "timer"
    /\ TopFrame(th[0]).fn = "checkConnection"
    /\ TopFrame(th[0]).i = 6
    /\ out = << Ev("exit", 0, "", "") >>
    /\ exitCode = 1

-----------------------------------------------------------------------------
(* C18 *)

\* the event i is an answer to the status command that the gate parses
Parsed(i) ==
    i.kind = "status" /\ i.tag = "body" /\ i.body.Success /\ i.body.Result # <<>>

\* the parsed status reports an account that is not ready
SomeNotReady(st) == \E u \in DOMAIN st.user : ~st.user[u].isDone

\* chain t is in checkUserLoggedIn and has not left its loop
Polling(stack) ==
    \E k \in 1 .. Len(stack) :
        stack[k].fn = "checkUserLoggedIn" /\ stack[k].pc # "done"

\* C18: the step that handles a parsed status whose isDone is false (as it is
\* whenever the status reports an account not ready) starts the sleep and
\* nothing else, and keeps no count; the step in which the sleep ends sends
\* the status command again; and a chain leaves the loop of checkUserLoggedIn,
\* the process running, only in the step that handles a parsed status whose
\* isDone is true.
C18_PollsUntilAllReady ==
    [][ /\ Parsed(inp') =>
              LET st == parseASFStatus(inp'.body.Result)
                  f  == TopFrame(th[inp'.t])
              IN  /\ SomeNotReady(st) => ~st.isDone
                  /\ ~st.isDone =>
                        /\ TopFrame(th'[inp'.t]) = [ f EXCEPT !.pc = "sleep" ]
                        /\ Len(th'[inp'.t]) = Len(th[inp'.t])
                        /\ out' = <<>>
                        /\ exitCode' = NotExited
                  /\ st.isDone =>
                        /\ out'[1] = Ev("ready", inp'.t, "", "")
                        /\ ~Polling(th'[inp'.t])
        /\ (inp'.kind = "timer" /\ TopFrame(th[inp'.t]).fn = "checkUserLoggedIn") =>
              /\ out' = << Ev("query", inp'.t, "status", "") >>
              /\ TopFrame(th'[inp'.t]) = [ TopFrame(th[inp'.t]) EXCEPT !.pc = "fetch" ]
              /\ exitCode' = NotExited
        /\ \A t \in Threads :
              (Polling(th[t]) /\ ~Polling(th'[t]) /\ exitCode' = NotExited) =>
                  /\ Parsed(inp')
                  /\ inp'.t = t
                  /\ parseASFStatus(inp'.body.Result).isDone
      ]_vars

\* a status that reported an account connecting has been handled, the sleep
\* has ended and the status command has been sent again
C18_Witness ==
    /\ inp.kind = "timer"
    /\ TopFrame(th[0]).fn = "checkUserLoggedIn"
    /\ TopFrame(th[0]).pc = "fetch"
    /\ out = << Ev("query", 0, "status", "") >>
    /\ exitCode = NotExited

-----------------------------------------------------------------------------
(* C19 *)

\* C19: the step that handles a transport error of the status command ends
\* the process with exit code 1 and does nothing else: it sends no command,
\* emits no notification, calls checkGame in no chain and sets no timer; and
\* no step follows the end of the process.
C19_StatusTransportErrorIsFatal ==
    [][ /\ exitCode = NotExited
        /\ (inp'.kind = "status" /\ inp'.tag = "error") =>
              /\ exitCode' = 1
              /\ out' = << Ev("exit", inp'.t, "", "") >>
              /\ th'[inp'.t] = <<>>
              /\ \A t \in Threads : ~\E k \in 1 .. Len(th'[t]) : th'[t][k].fn = "checkGame"
              /\ ~timer'
              /\ ticks' = 0
              /\ hist'.gate = "reachable"
      ]_vars

\* the status command has failed in transport and the process has ended with
\* exit code 1 before any cycle
C19_Witness ==
    /\ inp.kind = "status"
    /\ inp.tag = "error"
    /\ exitCode = 1
    /\ th[0] = <<>>
    /\ ~timer
    /\ hist.gate = "reachable"

-----------------------------------------------------------------------------
(* C20 *)

-----------------------------------------------------------------------------
(* C21 *)

\* C21 (as stated): the process ends only in a call of checkGame.
C21_OnlyCycleTerminates ==
    \A j \in 1 .. Len(out) :
        out[j].ev = "exit" => CycleFrame(th[out[j].t]).fn = "checkGame"

\* C21 (amended): the process is ended by process.exit(1) in the start-up
\* code before the first notification (validateConfig, the storage directory,
\* the load of the file), in checkConnection after the delay of its last
\* attempt, and in checkGame; and by a rejection that nothing handles: of
\* checkUserLoggedIn, when the status command failed or its answer was
\* unusable, and of a chain that awaited the promise of a notification whose
\* delivery failed.  The step in which a loop of the dispatcher goes on ends
\* the process never, and no other event does.
C21_WhoTerminates ==
    /\ Len(Events(out, "exit")) <= 1
    /\ \A j \in 1 .. Len(out) :
          out[j].ev = "exit" =>
              LET f == TopFrame(th[out[j].t])
              IN  /\ out[j].t = inp.t
                  /\ exitCode = 1
                  /\ \/ f.fn = "main" /\ f.pc = "begin" /\ inp.kind = "start"
                     \/ f.fn = "checkConnection" /\ inp.kind = "timer"
                     \/ f.fn = "checkGame" /\ f.pc \in FatalPcs
                     \/ th[inp.t] = <<>> /\ inp.kind = "status"
                        /\ (inp.tag = "error" \/ ~Parsed(inp))
                     \/ th[inp.t] = <<>> /\ inp.kind = "webhook" /\ inp.tag = "fail"
    /\ inp.kind = "wake" => exitCode = NotExited

\* validateConfig has ended the process: the interval is not a positive number
C21_Witness ==
    /\ inp.kind = "start"
    /\ IntervalInvalid(config.interval)
    /\ out = << Ev("exit", 0, "", "") >>
    /\ TopFrame(th[0]).fn = "main"
    /\ exitCode = 1
    /\ ~timer

-----------------------------------------------------------------------------
(* C22 *)

\* the step from stack to stack2 on event i ends the process on one of the
\* fatal paths: invalid interval, reachability attempts exhausted, failure of
\* the status command, submission rejected or failed
FatalPath(i, stack, stack2) ==
    \/ i.kind = "start" /\ IntervalInvalid(config.interval)
    \/ i.kind = "timer" /\ TopFrame(stack).fn = "checkConnection"
    \/ i.kind = "status"
    \/ CycleFrame(stack2).pc \in {"afterNonSuccess", "afterCatchSubmit"}

\* C22 (as stated): with a sink that takes errors, a step that ends the
\* process on a fatal path enqueues an error notification before it does so,
\* or is the step of a chain that awaited the promise of an error
\* notification it had enqueued.
C22_ErrorNotifiedBeforeExit ==
    [][ (exitCode' # NotExited /\ Enabled("error")
         /\ FatalPath(inp', th[inp'.t], th'[inp'.t])) =>
            \/ \E j, k \in 1 .. Len(out') :
                  /\ j < k
                  /\ out'[j].ev = "enqueue"
                  /\ out'[j].type = "error"
                  /\ out'[k].ev = "exit"
            \/ /\ Awaits(th[inp'.t])
               /\ TopFrame(th[inp'.t]).type = "error"
      ]_vars

-----------------------------------------------------------------------------
(* C23 *)

\* a line of the text names an account and has RateLimitExceeded in its status
HasRateLimitLine(result) ==
    \E k \in 1 .. Len(result) :
        result[k].m /\ HasToken(result[k].status, "RateLimitExceeded")

\* C23 (as stated): the step that handles an answer reporting success whose
\* text has a line with RateLimitExceeded for an account, wherever in the text
\* and whatever the other lines, leaves processedLicenses as it is and takes
\* the rate-limited branch.
C23_AnyRateLimitLineIsRateLimited ==
    [][ (Answered(inp') /\ inp'.body.Success /\ ~inp'.body.null
         /\ HasRateLimitLine(inp'.body.Result)) =>
            /\ processedLicenses' = processedLicenses
            /\ Produced(out', "push", inp'.t) = {}
            /\ \E j \in Produced(out', "limited", inp'.t) :
                  out'[j].code = CurrentLicense(inp'.t)
      ]_vars

-----------------------------------------------------------------------------
(* C24 *)

\* every line of the text is the line of an account with the bare status OK
AllBareOK(result) ==
    /\ result # <<>>
    /\ \A k \in 1 .. Len(result) : result[k].m /\ result[k].status = StOK

\* the accounts the text has a line of
Accounts(result) == { result[k].user : k \in { j \in 1 .. Len(result) : result[j].m } }

\* C24: the step that handles an answer reporting success whose text gives
\* the bare status OK for every account takes the success branch: the parsed
\* result has every account with the status "OK -> Not available for this
\* account", the submitted code is appended to processedLicenses, the list is
\* saved, and a success notification for the code is emitted.
C24_BareOKIsSuccess ==
    [][ (Answered(inp') /\ inp'.body.Success /\ ~inp'.body.null
         /\ AllBareOK(inp'.body.Result)) =>
            LET asfResult == parseASFResult(inp'.body.Result)
                code      == CurrentLicense(inp'.t)
            IN  /\ DOMAIN asfResult = Accounts(inp'.body.Result)
                /\ \A u \in DOMAIN asfResult : asfResult[u].status = StPlaceholder
                /\ processedLicenses' = Append(processedLicenses, code)
                /\ disk'.file = File("ok", processedLicenses')
                /\ Produced(out', "limited", inp'.t) = {}
                /\ \E j \in Produced(out', "emit", inp'.t) :
                      out'[j].type = "success" /\ out'[j].code = code
      ]_vars

\* two accounts have answered the first submission with the bare OK
C24_Witness ==
    /\ Answered(inp)
    /\ inp.body.Success
    /\ AllBareOK(inp.body.Result)
    /\ Accounts(inp.body.Result) = {"bot1", "bot2"}
    /\ processedLicenses = <<"s/2">>
    /\ disk.file = File("ok", <<"s/2">>)
    /\ \E j \in 1 .. Len(out) : out[j].ev = "emit" /\ out[j].type = "success"

-----------------------------------------------------------------------------
(* C25 *)

\* no line of the text is the line of an account
NoMatch(result) == \A k \in 1 .. Len(result) : ~result[k].m

\* C25 (as stated): of every status text the gate parses, isDone is the
\* conjunction of the isDone of the accounts in the returned user map, also
\* when an account has several lines; an account's isDone is false exactly
\* when its status has "Bot is connecting to Steam network"; and isDone is
\* true when no line matches.
C25_AllReadyIsAndOfFlags ==
    Parsed(inp) =>
        LET st == parseASFStatus(inp.body.Result)
        IN  /\ st.isDone = (\A u \in DOMAIN st.user : st.user[u].isDone)
            /\ \A u \in DOMAIN st.user :
                  st.user[u].isDone
                     = ~HasToken(st.user[u].status, "Bot is connecting to Steam network")
            /\ NoMatch(inp.body.Result) => st.isDone

-----------------------------------------------------------------------------
(* C26 *)

\* C26 (as stated): the keys of what a parser returns are the accounts of the
\* matched lines of its text, the other lines dropped; and in the step that
\* handles an answer reporting success to a status or an addlicense command,
\* the parser raises nothing: no exception is caught at the place where the
\* cycle calls parseASFResult, and the process goes on.
C26_ParsersNeverRaise ==
    [][ /\ (Answered(inp') /\ inp'.body.Success) =>
              /\ DOMAIN parseASFResult(inp'.body.Result) = Accounts(inp'.body.Result)
              /\ CycleFrame(th'[inp'.t]).err # "response"
              /\ exitCode' = NotExited
        /\ Parsed(inp') =>
              /\ DOMAIN parseASFStatus(inp'.body.Result).user
                    = Accounts(inp'.body.Result)
              /\ exitCode' = NotExited
      ]_vars

-----------------------------------------------------------------------------
(* C27 *)

\* the call of sendHookAsync for a code in a stack; F0 when there is none
HookFrame(stack) ==
    IF \E k \in 1 .. Len(stack) : stack[k].fn = "sendHookAsync" /\ stack[k].lic # ""
    THEN stack[CHOOSE k \in 1 .. Len(stack) :
                   stack[k].fn = "sendHookAsync" /\ stack[k].lic # ""]
    ELSE F0

\* event j of o is the emission of a notification without a code
PlainEmit(o, j) == o[j].ev = "emit" /\ o[j].code = ""

\* event j of o puts the job of the notification emitted by event k of o
EnqueueOf(o, j, k) ==
    /\ j \in 1 .. Len(o)
    /\ k \in 1 .. Len(o)
    /\ o[j] = [ o[k] EXCEPT !.ev = "enqueue" ]

\* Without a URL nothing is enqueued and no loop of the dispatcher runs; a
\* job is enqueued only for a type in WEBHOOK_ENABLEDTYPES; and the emission
\* of a notification without a code, its type enabled, is followed at once by
\* its one job, and no such job is enqueued otherwise.
SinkAndTypesFilter(o, q, d) ==
    /\ config.webhookUrl \in {"", "none"} => q = <<>> /\ d = Idle
    /\ \A j \in 1 .. Len(o) : o[j].ev = "enqueue" => Enabled(o[j].type)
    /\ \A j \in 1 .. Len(q) : Enabled(q[j].type)
    /\ \A k \in 1 .. Len(o) :
          (PlainEmit(o, k) /\ Enabled(o[k].type)) => EnqueueOf(o, k + 1, k)
    /\ \A j \in 1 .. Len(o) :
          (o[j].ev = "enqueue" /\ o[j].code = "") => EnqueueOf(o, j, j - 1)

-----------------------------------------------------------------------------
(* C28 *)

\* chain t has a metadata lookup that has failed: the answer of the Steam
\* store just handled is not a success, or the chain awaited the warning of
\* parseAppMetaAsync or parseSubApps
LookupFailed(i, stack) ==
    \/ i.kind = "steam" /\ i.tag # "ok"
    \/ /\ i.kind = "webhook"
       /\ \E k \in 1 .. Len(stack) :
             /\ stack[k].fn \in {"parseAppMetaAsync", "parseSubApps"}
             /\ stack[k].pc \in {"warned", "caught"}

\* the jobs of chain t among the jobs q
JobsOf(q, t) == SelectSeq(q, LAMBDA job : job.owner = t)

\* C28 (as stated): while a chain is in the metadata lookup of a notification
\* for a code, a step that handles the failure of the lookup, or follows the
\* warning of it, does not end the notification or the process and raises
\* nothing into checkGame, so the notification is still sent; and the job it
\* enqueues carries the placeholder metadata.
C28_LookupFailureRecovered ==
    [][ LET t == inp'.t
            g == HookFrame(th[t])
            h == HookFrame(th'[t])
        IN  (g.pc \in {"metaApp", "metaSub"}
             /\ LookupFailed(inp', th[t])
             /\ ~(inp'.kind = "webhook" /\ inp'.tag = "fail")) =>
                /\ h.fn = "sendHookAsync"
                /\ exitCode' = NotExited
                /\ CycleFrame(th'[t]).err = CycleFrame(th[t]).err
                /\ h.pc = "sentMeta" =>
                      \A j \in 1 .. Len(JobsOf(Unsettled(webhookQueue', dsp'), t)) :
                          JobsOf(Unsettled(webhookQueue', dsp'), t)[j].meta = "placeholder"
      ]_vars

-----------------------------------------------------------------------------
(* C29 *)

\* C29: with an interval that is not a number or not positive, the only step
\* of the process is the start of the module, which ends it with exit code 1
\* and does nothing else: no stats or status command and no fetch of the
\* Gist is sent, no notification is emitted or enqueued, no addlicense
\* command is sent, nothing is read or written, and no timer is set.
C29_InvalidIntervalExitsAtStart ==
    (config.interval.nan \/ config.interval.n <= 0) =>
        /\ inp.kind \in {"", "start"}
        /\ inp.kind = "" => exitCode = NotExited /\ out = <<>>
        /\ inp.kind = "start" => exitCode = 1 /\ out = << Ev("exit", 0, "", "") >>
        /\ webhookQueue = <<>>
        /\ dsp = Idle
        /\ processedLicenses = <<>>
        /\ hist.gate = ""
        /\ ticks = 0
        /\ ~timer
        /\ \A t \in Threads : t # 0 => th[t] = <<>>
        /\ \A k \in 1 .. Len(th[0]) : th[0][k].fn = "main" /\ th[0][k].pc = "begin"

\* the process has ended at its start on the interval 0, a sink or none
C29_Witness ==
    /\ ~config.interval.nan
    /\ config.interval.n = 0
    /\ inp = Input("start", 0, "", NoBody)
    /\ exitCode = 1
    /\ Events(out, "exit") = out
    /\ Len(out) = 1

-----------------------------------------------------------------------------
(* C30 *)

\* the event i gives chain t's cycle a list without a new code
NoNewCodes(i) ==
    /\ i.kind = "gist"
    /\ i.tag = "ok"
    /\ InCycle(i.t)
    /\ Unprocessed(i.content, processedLicenses) = <<>>

\* the event i is the delivery of the notification chain i.t awaits
Delivered(i) == i.kind = "webhook" /\ i.tag = "ok"

\* the emissions of chain t in o
Emits(o, t) == SelectSeq(o, LAMBDA e : e.ev = "emit" /\ e.t = t)

\* C30 (as stated): the step that handles a list without a new code sends
\* no addlicense command and emits the info notification "No new packages
\* found." and no other; and once that notification is delivered the cycle
\* returns without emitting the notification of the next run.
C30_ReturnsAfterNoNewPackages ==
    [][ LET t == inp'.t
        IN  /\ NoNewCodes(inp') =>
                  /\ Produced(out', "submit", t) = {}
                  /\ Emits(out', t) = << Ev("emit", t, "info", "") >>
            /\ (CycleFrame(th[t]).pc = "afterNoNew" /\ Delivered(inp')) =>
                  Emits(out', t) = <<>>
      ]_vars

\* C30 (amended): the step that handles a list without a new code sends no
\* addlicense command and emits the info notification "No new packages
\* found."; when that notification is not awaited, or once it is delivered,
\* the cycle emits the info notification of the next run, as it does after a
\* batch, and only then returns: a cycle returns, the process running, only
\* after the notification of the next run, and sends no addlicense command
\* on the way.
C30_NextRunAlsoAfterNoNewPackages ==
    [][ LET t  == inp'.t
            f  == CycleFrame(th[t])
            f2 == CycleFrame(th'[t])
            info == Ev("emit", t, "info", "")
        IN  /\ NoNewCodes(inp') =>
                  /\ Produced(out', "submit", t) = {}
                  /\ Produced(out', "push", t) = {}
                  /\ IF Enabled("info")
                     THEN Emits(out', t) = << info >> /\ f2.pc = "afterNoNew"
                     ELSE Emits(out', t) = << info, info >> /\ f2.fn # "checkGame"
            /\ (f.pc = "afterNoNew" /\ Delivered(inp')) =>
                  /\ Emits(out', t) = << info >>
                  /\ f2.pc = "afterNextRun"
                  /\ Produced(out', "submit", t) = {}
            /\ (f.pc = "afterNextRun" /\ Delivered(inp')) =>
                  /\ Emits(out', t) = <<>>
                  /\ f2.fn # "checkGame"
                  /\ exitCode' = NotExited
            /\ (InCycle(t) /\ f2.fn # "checkGame" /\ exitCode' = NotExited) =>
                  IF f.pc = "afterNextRun" THEN Delivered(inp')
                  ELSE /\ ~Enabled("info")
                       /\ Emits(out', t) # <<>>
                       /\ Emits(out', t)[Len(Emits(out', t))] = info
      ]_vars

\* "No new packages found." has been delivered and the notification of the
\* next run emitted, in a cycle without a batch
C30_Witness ==
    \E t \in Threads :
        /\ Delivered(inp)
        /\ inp.t = t
        /\ CycleFrame(th[t]).pc = "afterNextRun"
        /\ CycleFrame(th[t]).batch = <<>>
        /\ CycleFrame(th[t]).sent = 0
        /\ Emits(out, t) = << Ev("emit", t, "info", "") >>

-----------------------------------------------------------------------------
(* C31 *)

\* C31: a chain sends at most one addlicense command in a step; it sends it
\* only in the step in which the sleep(2) of its cycle ends, for the code
\* batch[i], when the answers to all the commands the cycle sent before have
\* been handled (i = sent + 1); and while the cycle awaits the answer it sends
\* nothing: a cycle has at most one submission in flight.
C31_SubmissionsSequential ==
    [][ \A t \in Threads :
          LET f  == CycleFrame(th[t])
              f2 == CycleFrame(th'[t])
              S  == Produced(out', "submit", t)
          IN  /\ Cardinality(S) <= 1
              /\ \A j \in S :
                    /\ inp'.kind = "timer"
                    /\ inp'.t = t
                    /\ f.pc = "sleep"
                    /\ f.i = f.sent + 1
                    /\ out'[j].code = f.batch[f.i]
                    /\ f2 = [ f EXCEPT !.pc = "response", !.sent = f.sent + 1 ]
              /\ f.pc = "response" =>
                    /\ S = {}
                    /\ f2 # f => inp'.kind = "claim" /\ inp'.t = t
      ]_vars

\* the second submission of the initial cycle has been sent, the first one
\* answered and handled
C31_Witness ==
    /\ inp.kind = "timer"
    /\ out = << Ev("submit", 0, "", "a/1") >>
    /\ CycleFrame(th[0]).pc = "response"
    /\ CycleFrame(th[0]).sent = 2
    /\ CycleFrame(th[0]).i = 2
    /\ Enabled("success")

-----------------------------------------------------------------------------
(* C32 *)

\* C32 (as stated): a cycle does not wait for the delivery of a notification
\* except on a path that ends the process: a chain in checkGame is suspended
\* in the await of a job's promise only where checkGame awaits the error
\* notification of a fatal path.
C32_CycleDoesNotAwaitDelivery ==
    \A t \in Threads :
        (InCycle(t) /\ Awaits(th[t])) => CycleFrame(th[t]).pc \in FatalPcs

-----------------------------------------------------------------------------
(* C33 *)

\* the cycle of frame f is on a fatal path: it awaits, or has awaited, the
\* error notification of a failed fetch of the list or of a rejected or
\* failed submission
FatalOutcome(f) == f.pc \in FatalPcs /\ f.err \in {"", "gist", "response", "afterNonSuccess"}

\* C33 (as stated): no step follows the end of the process: no addlicense
\* command, no job, no change of processedLicenses, no cycle of the timer;
\* and a cycle ends the process only by a fatal outcome (the fetch of the
\* list failed, or a submission was rejected or failed), every other cycle
\* returning with the process running and the timer set, so that the next
\* tick starts a cycle.
C33_FatalIsTerminal ==
    [][ /\ exitCode # NotExited => UNCHANGED vars
        /\ \A j \in 1 .. Len(out') :
              (out'[j].ev = "exit" /\ InCycle(out'[j].t)) =>
                  \/ FatalOutcome(CycleFrame(th[out'[j].t]))
                  \/ FatalOutcome(CycleFrame(th'[out'[j].t]))
        /\ \A t \in Threads :
              (InCycle(t) /\ CycleFrame(th'[t]).fn # "checkGame"
               /\ exitCode' = NotExited) => timer'
      ]_vars

-----------------------------------------------------------------------------
(* C34 *)

\* a job that chain t awaits is in the queue
Queued(t) == \E j \in 1 .. Len(webhookQueue) : webhookQueue[j].owner = t

\* a loop of the dispatcher is in the fetch of a job that chain t awaits
Attempted(t) ==
    \E j \in 1 .. Len(InFlight(dsp)) : InFlight(dsp)[j].job.owner = t

\* C34: a step that enqueues a job while no loop of the dispatcher is active
\* starts a loop, which starts the delivery of that job at once; and, the
\* fetches settling and the sleeps ending, a job in the queue is taken into
\* its delivery attempt as long as the process runs, also a job enqueued
\* while the only loop is in the sleep(0.2) after which it would have ended.
C34_EveryJobGetsItsAttempt ==
    /\ [][ (dsp = Idle /\ Events(out', "enqueue") # <<>>) =>
               /\ dsp' # Idle
               /\ isProcessingWebhook'
               /\ Events(out', "deliver") =
                     << [ Events(out', "enqueue")[1] EXCEPT !.ev = "deliver" ] >>
          ]_vars
    /\ \A t \in Threads : Queued(t) ~> (Attempted(t) \/ exitCode # NotExited)

\* a job has been enqueued while the only loop, the queue empty, was in its
\* sleep(0.2)
C34_Witness ==
    /\ inp.kind = "webhook"
    /\ Len(dsp) = 1
    /\ dsp[1].pc = "sleep"
    /\ Len(webhookQueue) = 1
    /\ Queued(inp.t)
    /\ Len(Events(out, "enqueue")) = 1
    /\ Events(out, "deliver") = <<>>
    /\ exitCode = NotExited

-----------------------------------------------------------------------------
(* C35 *)

\* no element of the sequence s occurs in it twice
NoDuplicates(s) == \A j, k \in 1 .. Len(s) : s[j] = s[k] => j = k

\* C35 (as stated): processedLicenses holds no code twice, whatever the lines
\* of the fetched list; and a cycle sends no addlicense command for a code it
\* has sent one for before.
C35_ProcessedIsASet ==
    /\ NoDuplicates(processedLicenses)
    /\ \A j \in 1 .. Len(out) :
          out[j].ev = "submit" =>
              LET f == CycleFrame(th[out[j].t])
              IN  \A k \in 1 .. f.i - 1 : f.batch[k] # out[j].code

-----------------------------------------------------------------------------
(* C36 *)

\* the event i is the answer to the fetch of the list that the migration of
\* chain 0 awaits
MigrationAnswer(i, stack) ==
    i.kind = "gist" /\ i.t = 0 /\ TopFrame(stack).fn = "main"

\* the first n entries of the list of the document
FirstEntries(content, n) ==
    SubSeq(ParseCodes(content), 1, Min(n, Len(ParseCodes(content))))

\* the start of the module with a marker that is absent or not a number:
\* processedLicenses is what the file holds, no list is fetched for a
\* migration, the marker is left as it is and the start-up goes on
NoMigration ==
    (inp'.kind = "start" /\ disk.marker.st # "ok" /\ disk.file.st # "bad"
     /\ ~IntervalInvalid(config.interval)) =>
        /\ processedLicenses' = disk.file.v
        /\ disk'.marker = disk.marker
        /\ exitCode' = NotExited
        /\ Events(out', "query") = << Ev("query", 0, "stats", "") >>

-----------------------------------------------------------------------------
(* C37 *)

\* C37 (as stated): the failure of the delivery of a notification that a
\* cycle awaits, the cycle not on a path to the exit, does not end the
\* process, does not turn the cycle to a path to the exit, and leaves
\* processedLicenses, the file and the batch of the cycle as they are.
C37_FailedDeliveryKeepsCycle ==
    [][ \A t \in Threads :
          LET f  == CycleFrame(th[t])
              f2 == CycleFrame(th'[t])
          IN  (/\ inp'.kind = "webhook"
               /\ inp'.tag = "fail"
               /\ inp'.t = t
               /\ InCycle(t)
               /\ f.pc \notin FatalPcs) =>
                  /\ exitCode' = NotExited
                  /\ processedLicenses' = processedLicenses
                  /\ disk' = disk
                  /\ f2.fn = "checkGame" =>
                        /\ f2.pc \notin FatalPcs
                        /\ f2.err = f.err
                        /\ f2.batch = f.batch
      ]_vars

-----------------------------------------------------------------------------
(* C38 *)

\* C38: while the process runs, at every suspension point: the flag not
\* set, the queue is empty; the queue not empty, exactly one loop of the
\* dispatcher is active, in the fetch of a job or in its sleep.  The next
\* job a loop takes when the queue is not empty is the head of the queue,
\* which leaves the queue.
C38_DispatcherInvariant ==
    /\ [](exitCode = NotExited =>
            /\ ~isProcessingWebhook => webhookQueue = <<>>
            /\ webhookQueue # <<>> =>
                  /\ Len(dsp) = 1
                  /\ dsp[1].pc \in {"fetch", "sleep"})
    /\ [][ (webhookQueue # <<>> /\ Events(out', "deliver") # <<>>) =>
              /\ Events(out', "deliver") =
                    << Ev("deliver", webhookQueue[1].owner,
                          webhookQueue[1].type, webhookQueue[1].lic) >>
              /\ dsp'[1] = [ pc |-> "fetch", job |-> webhookQueue[1] ]
              /\ Tail(webhookQueue) = SubSeq(webhookQueue', 1, Len(webhookQueue) - 1)
          ]_vars

\* a job waits in the queue while the loop is in the fetch of the job before
\* it, and another job has been delivered before
C38_Witness ==
    /\ exitCode = NotExited
    /\ Len(webhookQueue) = 1
    /\ isProcessingWebhook
    /\ Len(dsp) = 1
    /\ dsp[1].pc = "fetch"
    /\ dsp[1].job.owner # webhookQueue[1].owner
    /\ inp.kind = "wake"

-----------------------------------------------------------------------------
(* C39 *)

\* C39: at every suspension point of a cycle and when the process has ended
\* after the load of the file, the file holds processedLicenses; when the
\* process has ended in the start of the module, before or in the load,
\* processedLicenses holds no code.
C39_PersistedTracksMemory ==
    /\ ((\E t \in Threads : InCycle(t))
         \/ (exitCode # NotExited /\ inp.kind # "start")) =>
            disk.file = File("ok", processedLicenses)
    /\ (exitCode # NotExited /\ inp.kind = "start") => processedLicenses = <<>>

\* the process has ended in a cycle, on the answer to the submission of a
\* second code, with the first code processed and in the file
C39_Witness ==
    /\ exitCode # NotExited
    /\ inp.kind = "claim"
    /\ InCycle(inp.t)
    /\ CycleFrame(th[inp.t]).i = 2
    /\ processedLicenses = <<"a/1">>
    /\ disk.file = File("ok", <<"a/1">>)

-----------------------------------------------------------------------------
(* C40 *)

\* every code of the list is in processedLicenses
AllProcessed ==
    \A content \in docs : Unprocessed(content, processedLicenses) = <<>>

\* C40: on a fixed list, every submission classified success, the process
\* running: once a cycle has begun, eventually every code of the list is in
\* processedLicenses; from
\* then on it stays so; and a cycle that fetches the list from then on makes
\* no submission, adds no code and emits the info notification of "no new
\* packages".
C40_Progress ==
    /\ (\E t \in Threads : InCycle(t)) ~> (AllProcessed \/ exitCode # NotExited)
    /\ [][AllProcessed => AllProcessed']_vars
    /\ [][ LET t == inp'.t
           IN  (/\ AllProcessed
                /\ inp'.kind = "gist"
                /\ inp'.tag = "ok"
                /\ InCycle(t)) =>
                   /\ Events(out', "submit") = <<>>
                   /\ Events(out', "push") = <<>>
                   /\ CycleFrame(th'[t]).batch = <<>>
                   /\ Emits(out', t) # <<>>
                   /\ Emits(out', t)[1] = Ev("emit", t, "info", "")
                   /\ exitCode' = NotExited
          ]_vars

\* the third cycle has fetched the list, of which the first cycle has
\* processed the last 40 lines and the second the first line
C40_Witness ==
    /\ AllProcessed
    /\ Len(processedLicenses) = BatchSize + 1
    /\ processedLicenses[BatchSize + 1] = "a/1"
    /\ inp.kind = "gist"
    /\ inp.tag = "ok"
    /\ inp.t = 2
    /\ ticks = 2
    /\ exitCode = NotExited
====
